---- MODULE Spec2Model ----
(***************************************************************************)
(* Authentication, authorization and audit core of the RBAC learning       *)
(* platform: the Express routes of server/routes/auth.js and               *)
(* server/routes/users.js, the guards of server/middleware/auth.js, the    *)
(* request validators of server/middleware/validation.js and the AuditLog  *)
(* model.  A request handler is a sequence of actions, one for each call   *)
(* it awaits (the store, bcrypt, the mailer), so that requests interleave  *)
(* as they do on the event loop.  The User model                           *)
(* (server/models/User.js) is not part of the available sources; the few   *)
(* methods the routes call on it (isLocked, comparePassword,               *)
(* incLoginAttempts, resetLoginAttempts, the password hash on save, the    *)
(* unique email index) are modelled from the specification.  Whether       *)
(* incLoginAttempts increments at the store or writes back the counter of  *)
(* the loaded document, and on which of the two counters it decides the    *)
(* lock, is not decided by the routes: a step takes any of them.           *)
(*                                                                         *)
(* Time is counted in minutes; the millisecond of a Date.now() within its  *)
(* minute is kept where two calls are compared (the placeholder email of a *)
(* deleted account), or both outcomes of the comparison are taken (the     *)
(* expiry of a reset token).  Strings whose characters matter (emails,     *)
(* passwords, the validated fields of a profile, the hexadecimal form of   *)
(* an ObjectId) are sequences of one-character strings.                    *)
(***************************************************************************)
EXTENDS Naturals, Sequences, FiniteSets

VARIABLES
    users,        \* the users collection: users[i] is the document with _id i
    auditLog,     \* the auditlogs collection, in insertion order
    jwts,         \* the session tokens issued so far (held by clients)
    rand,         \* how many values crypto.randomBytes has produced
    now,          \* Date.now(), in minutes
    resp,         \* the last response sent, with the operation it answers
    consecFails,  \* history: per account, counted wrong-password logins since the last reset
    registered,   \* history: emails of the successful Register calls
    spentResets,  \* history: reset tokens a successful ResetPassword consumed
    inflight,     \* the requests suspended at an await, and the createLog calls nobody awaits
    auth          \* the state of the client's AuthContext (its reducer's state)

vars == <<users, auditLog, jwts, rand, now, resp, consecFails, registered, spentResets, inflight,
          auth>>

(***************************************************************************)
(* Bounds of the model.                                                    *)
(***************************************************************************)
MaxUsers == 2
MaxAudit == 2
MaxAuditLogin == 4
MaxAuditAccounts == 4
MaxAuditGuarded == 3
MaxUsersRace == 3
MaxAuditRace == 3
MaxRandomRace == 3
MaxInflight == 3
MaxPending == 2
MaxMs == 1
OneAccount == 1
MaxAuditReset == 3
MaxAuditVerify == 4
MaxAuditSession == 8
MaxAuditOrder == 4
MaxRandom == 2
MaxRandomReset == 4
MaxJwts == 2
MaxTicks == 2
TickMinutes == 60
\* process.env.JWT_EXPIRES_IN in minutes; the deployment sets it, the model takes two hours
JwtExpiresInMin == 120

(***************************************************************************)
(* Program constants.                                                      *)
(***************************************************************************)
MaxLoginAttempts == 5
LockoutDurationMin == 120
ResetExpiresMin == 60

(***************************************************************************)
(* Strings.                                                                *)
(***************************************************************************)
\* String.prototype.toLowerCase on one character of the Latin alphabet
ToLowerChar(c) ==
    LET upper == <<"A", "B", "C", "D", "E", "F", "G", "H", "I", "J", "K", "L", "M", "N", "O",
                   "P", "Q", "R", "S", "T", "U", "V", "W", "X", "Y", "Z">>
        lower == <<"a", "b", "c", "d", "e", "f", "g", "h", "i", "j", "k", "l", "m", "n", "o",
                   "p", "q", "r", "s", "t", "u", "v", "w", "x", "y", "z">>
    IN  IF \E i \in DOMAIN upper : upper[i] = c
        THEN lower[CHOOSE i \in DOMAIN upper : upper[i] = c]
        ELSE c

ToLower(s) == [i \in DOMAIN s |-> ToLowerChar(s[i])]

HexChars == {"0", "1", "2", "3", "4", "5", "6", "7", "8", "9",
             "a", "b", "c", "d", "e", "f", "A", "B", "C", "D", "E", "F"}

\* the addresses a client may send; all are well-formed (isEmail passes)
RawEmails == {<<"a">>, <<"A">>, <<"b">>}

\* the password of the scenario's accounts, and another valid password
StrongPw == <<"P", "a", "s", "s", "w", "0", "r", "d", "!">>
OtherPw == <<"S", "e", "c", "r", "3", "t", "!", "!">>

\* passwords the rule refuses: too short, long enough with every kind of character but a
\* first character outside the rule's class, and one whose first line lacks a kind
WeakPw == <<"a", "b", "c">>
HashFirstPw == <<"#", "P", "a", "s", "s", "w", "0", "r", "d", "!">>
TwoLinePw == <<"P", "\n", "a", "s", "s", "w", "0", "r", "d", "!">>

Passwords == {StrongPw, OtherPw}

Roles == {"student", "instructor", "admin"}

\* the role field of a Register body: absent, or a role name
BodyRoles == {"", "admin"}

(***************************************************************************)
(* Request validation (server/middleware/validation.js).                   *)
(***************************************************************************)
\* NormalizeEmail without the lower-casing
NormalizeEmail_KeepCase(raw) == [pre |-> <<>>, addr |-> raw]

\* commonValidations.email: isEmail().normalizeEmail() lower-cases the address
NormalizeEmail(raw) == [pre |-> <<>>, addr |-> ToLower(raw)]

\* the characters of the classes \d and \s of the validation patterns ("u000b", "u00a0"
\* and the like stand for the characters of those code points)
DigitChars == {"0", "1", "2", "3", "4", "5", "6", "7", "8", "9"}

WhitespaceChars ==
    {" ", "\t", "\n", "\r", "\f", "u000b", "u00a0", "u1680", "u2000", "u2001", "u2002",
     "u2003", "u2004", "u2005", "u2006", "u2007", "u2008", "u2009", "u200a", "u2028",
     "u2029", "u202f", "u205f", "u3000", "ufeff"}

\* commonValidations.password: isLength({ min: 8 }) and matches(/^(?=.*[a-z])(?=.*[A-Z])
\* (?=.*\d)(?=.*[@$!%*?&])[A-Za-z\d@$!%*?&]/): the class is asked of the first character,
\* and a look-ahead's .* stops at a line terminator, so each kind of character is looked
\* for in the first line only ("u2028" and "u2029" stand for U+2028 and U+2029)
PasswordValid(p) ==
    LET LineTerminators == {"\n", "\r", "u2028", "u2029"}
        FirstLine ==
            IF \E i \in DOMAIN p : p[i] \in LineTerminators
            THEN SubSeq(p, 1, (CHOOSE i \in DOMAIN p :
                                  /\ p[i] \in LineTerminators
                                  /\ \A j \in DOMAIN p : p[j] \in LineTerminators => i <= j) - 1)
            ELSE p
        LowerChars ==
            {"a", "b", "c", "d", "e", "f", "g", "h", "i", "j", "k", "l", "m", "n", "o", "p",
             "q", "r", "s", "t", "u", "v", "w", "x", "y", "z"}
        UpperChars ==
            {"A", "B", "C", "D", "E", "F", "G", "H", "I", "J", "K", "L", "M", "N", "O", "P",
             "Q", "R", "S", "T", "U", "V", "W", "X", "Y", "Z"}
        SpecialChars == {"@", "$", "!", "%", "*", "?", "&"}
    IN  /\ Len(p) >= 8
        /\ \E i \in DOMAIN FirstLine : p[i] \in LowerChars
        /\ \E i \in DOMAIN FirstLine : p[i] \in UpperChars
        /\ \E i \in DOMAIN FirstLine : p[i] \in DigitChars
        /\ \E i \in DOMAIN FirstLine : p[i] \in SpecialChars
        /\ p[1] \in LowerChars \cup UpperChars \cup DigitChars \cup SpecialChars

\* validator's trim(): the value without its leading and trailing whitespace
Trim(s) ==
    LET kept == {i \in DOMAIN s : s[i] \notin WhitespaceChars}
    IN  IF kept = {} THEN <<>>
        ELSE SubSeq(s, CHOOSE i \in kept : \A j \in kept : i <= j,
                       CHOOSE i \in kept : \A j \in kept : j <= i)

\* commonValidations.name: trim(), isLength({ min: 2, max: 50 }) and
\* matches(/^[a-zA-Z\s'-]+$/), both asked of the trimmed value
NameValid(v) ==
    LET LetterChars ==
            {"a", "b", "c", "d", "e", "f", "g", "h", "i", "j", "k", "l", "m", "n", "o", "p",
             "q", "r", "s", "t", "u", "v", "w", "x", "y", "z",
             "A", "B", "C", "D", "E", "F", "G", "H", "I", "J", "K", "L", "M", "N", "O", "P",
             "Q", "R", "S", "T", "U", "V", "W", "X", "Y", "Z"}
    IN  /\ Len(Trim(v)) >= 2
        /\ Len(Trim(v)) <= 50
        /\ \A i \in DOMAIN Trim(v) :
              Trim(v)[i] \in LetterChars \cup WhitespaceChars \cup {"'", "-"}

\* commonValidations.phone: matches(/^\+?[\d\s\-\(\)]+$/)
PhoneValid(v) ==
    LET rest == IF v # <<>> /\ v[1] = "+" THEN Tail(v) ELSE v
    IN  /\ rest # <<>>
        /\ \A i \in DOMAIN rest : rest[i] \in DigitChars \cup WhitespaceChars \cup {"-", "(", ")"}

\* isISO8601() without options: the test of validator's pattern
\* /^([\+-]?\d{4}(?!\d{2}\b))((-?)((0[1-9]|1[0-2])(\3([12]\d|0[1-9]|3[01]))?
\*   |W([0-4]\d|5[0-3])(-?[1-7])?|(00[1-9]|0[1-9]\d|[12]\d{2}|3([0-5]\d|6[1-6])))
\*   ([T\s]((([01]\d|2[0-3])((:?)[0-5]\d)?|24:?00)([\.,]\d+(?!:))?)?
\*   (\17[0-5]\d([\.,]\d+)?)?([zZ]|([\+-])([01]\d|2[0-3]):?([0-5]\d)?)?)?)?$/
\* Each part of the pattern is an operator from the positions of v at which it may start
\* to the positions at which it may end; position i is in front of v[i] and Len(v) + 1 is
\* the end of v.  \3 is the separator of the date, "-" or nothing; \17 is the separator in
\* front of the minutes, ":" or nothing, and nothing when there are no minutes
IsISO8601(v) ==
    LET Is(i, cs) == i \in DOMAIN v /\ v[i] \in cs
        WordChars ==
            DigitChars \cup
            {"_", "a", "b", "c", "d", "e", "f", "g", "h", "i", "j", "k", "l", "m", "n", "o",
             "p", "q", "r", "s", "t", "u", "v", "w", "x", "y", "z",
             "A", "B", "C", "D", "E", "F", "G", "H", "I", "J", "K", "L", "M", "N", "O", "P",
             "Q", "R", "S", "T", "U", "V", "W", "X", "Y", "Z"}
        Range(a, b) ==
            {<<"0", "1", "2", "3", "4", "5", "6", "7", "8", "9">>[d + 1] : d \in a..b}
        One(P, cs) == {i + 1 : i \in {j \in P : Is(j, cs)}}
        Maybe(P, cs) == P \cup One(P, cs)
        Two(P, as, bs) == One(One(P, as), bs)
        Digits(P) == {j \in 2..(Len(v) + 1) :
                         \E i \in P : i < j /\ \A k \in i..(j - 1) : Is(k, DigitChars)}
        Year == {i \in One(One(One(One(Maybe({1}, {"+", "-"}), DigitChars), DigitChars),
                               DigitChars), DigitChars) :
                    ~(/\ Is(i, DigitChars)
                      /\ Is(i + 1, DigitChars)
                      /\ Is(i + 1, WordChars) # Is(i + 2, WordChars))}
        Month(P) == Two(P, {"0"}, Range(1, 9)) \cup Two(P, {"1"}, Range(0, 2))
        Day(P) == Two(P, {"1", "2"}, DigitChars) \cup Two(P, {"0"}, Range(1, 9))
                     \cup Two(P, {"3"}, Range(0, 1))
        Week(P) == LET ww == Two(One(P, {"W"}), Range(0, 4), DigitChars)
                                \cup Two(One(P, {"W"}), {"5"}, Range(0, 3))
                   IN  ww \cup One(Maybe(ww, {"-"}), Range(1, 7))
        Ordinal(P) == One(Two(P, {"0"}, {"0"}), Range(1, 9))
                         \cup One(Two(P, {"0"}, Range(1, 9)), DigitChars)
                         \cup One(Two(P, {"1", "2"}, DigitChars), DigitChars)
                         \cup Two(One(P, {"3"}), Range(0, 5), DigitChars)
                         \cup Two(One(P, {"3"}), {"6"}, Range(1, 6))
        Sixty(P) == Two(P, Range(0, 5), DigitChars)
        Hour(P) == Two(P, Range(0, 1), DigitChars) \cup Two(P, {"2"}, Range(0, 3))
        Fraction(P) == Digits(One(P, {".", ","}))
        MaybeHourFraction(P) == P \cup {i \in Fraction(P) : ~Is(i, {":"})}
        Zone(P) == One(P, {"z", "Z"})
                      \cup Maybe(Hour(One(P, {"+", "-"})), {":"})
                      \cup Sixty(Maybe(Hour(One(P, {"+", "-"})), {":"}))
        Seconds(P) == P \cup Sixty(P) \cup Fraction(Sixty(P))
        Time(P) ==
            LET t == One(P, {"T"} \cup WhitespaceChars)
                colonMinutes == MaybeHourFraction(Sixty(One(Hour(t), {":"})))
                plainMinutes == MaybeHourFraction(Sixty(Hour(t)))
                noMinutes == MaybeHourFraction(Hour(t))
                midnight == MaybeHourFraction(Two(Maybe(Two(t, {"2"}, {"4"}), {":"}),
                                                  {"0"}, {"0"}))
                seconds == (colonMinutes \cup Sixty(One(colonMinutes, {":"}))
                                \cup Fraction(Sixty(One(colonMinutes, {":"}))))
                              \cup Seconds(plainMinutes \cup noMinutes \cup midnight \cup t)
            IN  seconds \cup Zone(seconds)
        Date(P, sep) ==
            LET Sep(Q) == IF sep = "-" THEN One(Q, {"-"}) ELSE Q
                day == Month(Sep(P)) \cup Day(Sep(Month(Sep(P)))) \cup Week(Sep(P))
                          \cup Ordinal(Sep(P))
            IN  day \cup Time(day)
    IN  (Len(v) + 1) \in Year \cup Date(Year, "-") \cup Date(Year, "")

(***************************************************************************)
(* The User model, from the specification.                                 *)
(***************************************************************************)
\* the pre-save hook stores a hash, never the plaintext
HashPassword(p) == <<"hash", p>>

comparePassword(u, p) == u.password = HashPassword(p)

isLocked(u, t) == u.lockUntil > t

incLoginAttempts(u, t) ==
    IF u.loginAttempts + 1 >= MaxLoginAttempts
    THEN [u EXCEPT !.loginAttempts = @ + 1, !.lockUntil = t + LockoutDurationMin]
    ELSE [u EXCEPT !.loginAttempts = @ + 1]

resetLoginAttempts(u) == [u EXCEPT !.loginAttempts = 0]

NewUser(email, password, role, evToken) ==
    [email |-> email, password |-> HashPassword(password), role |-> role,
     isActive |-> TRUE, isEmailVerified |-> FALSE,
     loginAttempts |-> 0, lockUntil |-> 0,
     emailVerificationToken |-> evToken,
     passwordResetToken |-> 0, passwordResetExpires |-> 0]

UserIds == 1..Len(users)

\* User.findOne({ email }): the first document with that email, 0 when there is none
FindOneByEmail(email) ==
    IF \E i \in UserIds : users[i].email = email
    THEN CHOOSE i \in UserIds :
            /\ users[i].email = email
            /\ \A j \in UserIds : users[j].email = email => i <= j
    ELSE 0

\* the unique index on email: a save that would duplicate an email is refused
EmailTakenByOther(id, email) == \E j \in UserIds : j # id /\ users[j].email = email

(***************************************************************************)
(* The AuditLog model (server/models/AuditLog.js).                         *)
(***************************************************************************)
AuditActionEnum ==
    {"LOGIN", "LOGOUT", "REGISTER", "PASSWORD_RESET", "EMAIL_VERIFY",
     "USER_CREATE", "USER_UPDATE", "USER_DELETE", "USER_ROLE_CHANGE",
     "COURSE_CREATE", "COURSE_UPDATE", "COURSE_DELETE", "COURSE_PUBLISH",
     "ASSIGNMENT_CREATE", "ASSIGNMENT_UPDATE", "ASSIGNMENT_DELETE",
     "GRADE_CREATE", "GRADE_UPDATE", "ENROLLMENT_CREATE", "ENROLLMENT_DELETE",
     "SYSTEM_CONFIG_UPDATE", "BACKUP_CREATE", "BACKUP_RESTORE"}

AuditSeverityEnum == {"LOW", "MEDIUM", "HIGH", "CRITICAL"}

AuditStatusEnum == {"SUCCESS", "FAILURE", "WARNING"}

AuditEvent(user, action, resourceId, detail, severity, status) ==
    [user |-> user, action |-> action, resourceId |-> resourceId,
     detail |-> detail, severity |-> severity, status |-> status]

\* schema validation run by Model.create: a document outside the enums is rejected
AuditValid(e) ==
    /\ e.action \in AuditActionEnum
    /\ e.severity \in AuditSeverityEnum
    /\ e.status \in AuditStatusEnum

\* createLog as an upsert: the newest event is overwritten instead of a new one appended
createLog_Upsert(log, e) ==
    IF ~AuditValid(e) THEN log
    ELSE IF log = <<>> THEN <<e>>
    ELSE [log EXCEPT ![Len(log)] = e]

\* AuditLog.createLog: this.create(logData); the log after the call
createLog(log, e) == IF AuditValid(e) THEN Append(log, e) ELSE log

(***************************************************************************)
(* Session tokens (jsonwebtoken, as the routes use it).                    *)
(***************************************************************************)
NoToken == [userId |-> 0, iat |-> 0, exp |-> 0, sig |-> "none"]

\* a well-formed token that was not signed with JWT_SECRET
ForgedToken == [userId |-> 1, iat |-> 0, exp |-> 0, sig |-> "other-secret"]

\* generateToken without the expiresIn option: the token never expires
generateToken_NoExpiry(userId, t) ==
    [userId |-> userId, iat |-> t, exp |-> t + 1000 * JwtExpiresInMin, sig |-> "JWT_SECRET"]

generateToken(userId, t) ==
    [userId |-> userId, iat |-> t, exp |-> t + JwtExpiresInMin, sig |-> "JWT_SECRET"]

\* jwt.verify: the decoded user id, or the name of the error thrown
JwtVerify(tok, t) ==
    IF tok.sig # "JWT_SECRET" THEN [err |-> "JsonWebTokenError", userId |-> 0]
    ELSE IF t >= tok.exp THEN [err |-> "TokenExpiredError", userId |-> 0]
    ELSE [err |-> "", userId |-> tok.userId]

\* the tokens clients hold after one more is issued
Keep(tok) == IF Cardinality(jwts) < MaxJwts THEN jwts \cup {tok} ELSE jwts

\* what a client may put in the Authorization header
Presentable == jwts \cup {NoToken, ForgedToken}

(***************************************************************************)
(* Responses.                                                              *)
(***************************************************************************)
\* op, uid and arg are not part of the body: they record which request was answered,
\* for which account, and the input the claims speak of (a password, an :id parameter)
Response(op, status, code, uid, token) ==
    [op |-> op, status |-> status, code |-> code, uid |-> uid, token |-> token, arg |-> <<>>]

WithArg(r, arg) == [r EXCEPT !.arg = arg]

NoResponse == Response("", 0, "", 0, NoToken)

(***************************************************************************)
(* The client's AuthContext.  Objects are records; null is a record of     *)
(* its own.                                                                *)
(***************************************************************************)
Null == [null |-> TRUE]

\* the state of useReducer at the start; token is localStorage.getItem('token')
initialState(storedToken) ==
    [user |-> Null, token |-> storedToken, isAuthenticated |-> FALSE,
     isLoading |-> TRUE, error |-> Null]

\* { ...a, ...b }: spreading null gives no property
Spread(a, b) ==
    LET x == IF a = Null THEN <<>> ELSE a
        y == IF b = Null THEN <<>> ELSE b
    IN  [k \in DOMAIN x \cup DOMAIN y |-> IF k \in DOMAIN y THEN y[k] ELSE x[k]]

\* authReducer whose LOGOUT leaves the token in the state
authReducer_LogoutKeepsToken(state, action) ==
    CASE action.type = "AUTH_START" ->
           [state EXCEPT !.isLoading = TRUE, !.error = Null]
      [] action.type = "AUTH_SUCCESS" ->
           [state EXCEPT !.user = action.payload.user, !.token = action.payload.token,
                         !.isAuthenticated = TRUE, !.isLoading = FALSE, !.error = Null]
      [] action.type = "AUTH_FAILURE" ->
           [state EXCEPT !.user = Null, !.token = Null, !.isAuthenticated = FALSE,
                         !.isLoading = FALSE, !.error = action.payload]
      [] action.type = "LOGOUT" ->
           [state EXCEPT !.user = Null, !.isAuthenticated = FALSE,
                         !.isLoading = FALSE, !.error = Null]
      [] action.type = "UPDATE_USER" ->
           [state EXCEPT !.user = Spread(state.user, action.payload)]
      [] action.type = "CLEAR_ERROR" ->
           [state EXCEPT !.error = Null]
      [] OTHER -> state

authReducer(state, action) ==
    CASE action.type = "AUTH_START" ->
           [state EXCEPT !.isLoading = TRUE, !.error = Null]
      [] action.type = "AUTH_SUCCESS" ->
           [state EXCEPT !.user = action.payload.user, !.token = action.payload.token,
                         !.isAuthenticated = TRUE, !.isLoading = FALSE, !.error = Null]
      [] action.type = "AUTH_FAILURE" ->
           [state EXCEPT !.user = Null, !.token = Null, !.isAuthenticated = FALSE,
                         !.isLoading = FALSE, !.error = action.payload]
      [] action.type = "LOGOUT" ->
           [state EXCEPT !.user = Null, !.token = Null, !.isAuthenticated = FALSE,
                         !.isLoading = FALSE, !.error = Null]
      [] action.type = "UPDATE_USER" ->
           [state EXCEPT !.user = Spread(state.user, action.payload)]
      [] action.type = "CLEAR_ERROR" ->
           [state EXCEPT !.error = Null]
      [] OTHER -> state

Init ==
    /\ users = <<>>
    /\ auditLog = <<>>
    /\ jwts = {}
    /\ rand = 0
    /\ now = 0
    /\ resp = NoResponse
    /\ consecFails = <<>>
    /\ registered = {}
    /\ spentResets = {}
    /\ inflight = <<>>
    /\ auth = initialState(Null)

(***************************************************************************)
(* Requests in flight.  A handler runs until it awaits a call and is       *)
(* suspended there while other requests run: every action below is one     *)
(* awaited call together with the code that follows it up to the next      *)
(* await.  The first action of a route has the route's name and takes the  *)
(* request's input: it is the code that runs when the request arrives,     *)
(* up to the first await.  The later actions take the position of the      *)
(* suspended request in inflight.                                          *)
(***************************************************************************)
\* a suspended request: the call it makes next (pc), the account authenticateToken
\* attached to it (uid), the account it works on (id) and its local variables (in)
Request(op, pc, uid, id, in) == [op |-> op, pc |-> pc, uid |-> uid, id |-> id, in |-> in]

RemoveAt(seq, k) == SubSeq(seq, 1, k - 1) \o SubSeq(seq, k + 1, Len(seq))

\* the request at position k is suspended before the call pc of route op
At(k, op, pc) == k \in DOMAIN inflight /\ inflight[k].op = op /\ inflight[k].pc = pc

\* the request is answered before it awaits: res.status(...).json(...)
Reject(r) ==
    /\ resp' = r
    /\ UNCHANGED <<auth, inflight, users, auditLog, jwts, rand, now, consecFails, registered,
                   spentResets>>

\* the request is suspended at its first await
Start(r) ==
    /\ Len(inflight) < MaxInflight
    /\ inflight' = Append(inflight, r)
    /\ UNCHANGED <<auth, users, auditLog, jwts, rand, now, resp, consecFails, registered,
                   spentResets>>

\* the suspended request goes on to its next await
Continue(k, r) == inflight' = [inflight EXCEPT ![k] = r]

\* the suspended request sends its response
Finish(k, r) == inflight' = RemoveAt(inflight, k) /\ resp' = r

\* the awaited call wrote nothing and the request goes on to its next await
Proceed(k, r) ==
    /\ Continue(k, r)
    /\ UNCHANGED <<auth, users, auditLog, jwts, rand, now, resp, consecFails, registered,
                   spentResets>>

\* the awaited call wrote nothing and the request is answered
Answer(k, r) ==
    /\ Finish(k, r)
    /\ UNCHANGED <<auth, users, auditLog, jwts, rand, now, consecFails, registered,
                   spentResets>>

\* the paths of a document that differ from what was loaded: document.isModified(path)
Modified(snap, doc) == {f \in DOMAIN doc : doc[f] # snap[f]}

\* document.save(): an update that sets the given paths and leaves the others as stored
SaveFields(stored, doc, paths) ==
    [f \in DOMAIN stored |-> IF f \in paths THEN doc[f] ELSE stored[f]]

(***************************************************************************)
(* POST /auth/register (server/routes/auth.js).                            *)
(***************************************************************************)
\* validation, await User.findOne, new User(...) with a fresh verification token
Register(rawEmail, password, confirmPassword, bodyRole) ==
    LET email == NormalizeEmail(rawEmail)
        role == IF bodyRole = "" THEN "student" ELSE bodyRole
    IN  IF ~PasswordValid(password) \/ confirmPassword # password
        THEN Reject(WithArg(Response("register", 400, "VALIDATION_FAILED", 0, NoToken), rawEmail))
        ELSE IF FindOneByEmail(email) # 0
        THEN Reject(WithArg(Response("register", 400, "USER_EXISTS", 0, NoToken), rawEmail))
        ELSE /\ Len(inflight) < MaxInflight
             /\ rand' = rand + 1
             /\ inflight' = Append(inflight,
                    Request("register", "save", 0, 0,
                            [rawEmail |-> rawEmail,
                             user |-> NewUser(email, password, role, rand + 1)]))
             /\ UNCHANGED <<auth, users, auditLog, jwts, now, resp, consecFails, registered,
                            spentResets>>

\* await user.save(): the unique index refuses a duplicate email
RegisterSave(k) ==
    LET r == inflight[k]
    IN  /\ At(k, "register", "save")
        /\ IF EmailTakenByOther(0, r.in.user.email)
           THEN Answer(k, WithArg(Response("register", 500, "REGISTRATION_ERROR", 0, NoToken),
                                  r.in.rawEmail))
           ELSE /\ users' = Append(users, r.in.user)
                /\ consecFails' = Append(consecFails, 0)
                /\ registered' = registered \cup {r.in.user.email}
                /\ Continue(k, Request("register", "log", 0, Len(users) + 1, r.in))
                /\ UNCHANGED <<auth, auditLog, jwts, rand, now, resp, spentResets>>

\* await AuditLog.createLog
RegisterLog(k) ==
    LET r == inflight[k]
    IN  /\ At(k, "register", "log")
        /\ auditLog' = createLog(auditLog, AuditEvent(r.id, "REGISTER", r.id, "", "LOW", "SUCCESS"))
        /\ Continue(k, Request("register", "send", 0, r.id, r.in))
        /\ UNCHANGED <<auth, users, jwts, rand, now, resp, consecFails, registered, spentResets>>

\* await sendEmail resolves, or throws into a catch that only logs; then generateToken and
\* res.status(201)
RegisterSend(k) ==
    LET r == inflight[k]
        token == generateToken(r.id, now)
    IN  /\ At(k, "register", "send")
        /\ jwts' = Keep(token)
        /\ Finish(k, WithArg(Response("register", 201, "REGISTERED", r.id, token), r.in.rawEmail))
        /\ UNCHANGED <<auth, users, auditLog, rand, now, consecFails, registered, spentResets>>

(***************************************************************************)
(* POST /auth/login (server/routes/auth.js).                               *)
(***************************************************************************)
\* LoginOutcome without the check of the lock
LoginOutcome_NoLock(id) ==
    IF id = 0 THEN "NO_USER"
    ELSE IF ~users[id].isActive THEN "ACCOUNT_DEACTIVATED"
    ELSE "COMPARE"

\* LoginOutcome with the active flag looked at before the lock
LoginOutcome_ActiveFirst(id) ==
    IF id = 0 THEN "NO_USER"
    ELSE IF ~users[id].isActive THEN "ACCOUNT_DEACTIVATED"
    ELSE IF isLocked(users[id], now) THEN "ACCOUNT_LOCKED"
    ELSE "COMPARE"

\* the checks of the handler on the document User.findOne gave it, in its order, before
\* it compares the password; id is 0 when no account was found
LoginOutcome(id) ==
    IF id = 0 THEN "NO_USER"
    ELSE IF isLocked(users[id], now) THEN "ACCOUNT_LOCKED"
    ELSE IF ~users[id].isActive THEN "ACCOUNT_DEACTIVATED"
    ELSE "COMPARE"

\* validation, await User.findOne, the checks on the loaded document
Login(rawEmail, password) ==
    LET email == NormalizeEmail(rawEmail)
        id == FindOneByEmail(email)
        outcome == LoginOutcome(id)
    IN  IF password = <<>>
        THEN Reject(WithArg(Response("login", 400, "VALIDATION_FAILED", 0, NoToken), <<password>>))
        ELSE CASE outcome = "NO_USER" ->
                    Reject(WithArg(Response("login", 401, "INVALID_CREDENTIALS", 0, NoToken),
                                   <<password>>))
               [] outcome = "ACCOUNT_LOCKED" ->
                    Reject(WithArg(Response("login", 423, "ACCOUNT_LOCKED", id, NoToken),
                                   <<password>>))
               [] outcome = "ACCOUNT_DEACTIVATED" ->
                    Reject(WithArg(Response("login", 401, "ACCOUNT_DEACTIVATED", id, NoToken),
                                   <<password>>))
               [] outcome = "COMPARE" ->
                    Start(Request("login", "compare", 0, id,
                                  [password |-> password, user |-> users[id]]))

\* await user.comparePassword(password) on the loaded document, and the branch the handler
\* takes: the failed login, or the success with or without a counter to reset
LoginCompare(k) ==
    LET r == inflight[k]
    IN  /\ At(k, "login", "compare")
        /\ Proceed(k, Request("login",
                              IF ~comparePassword(r.in.user, r.in.password) THEN "inc"
                              ELSE IF r.in.user.loginAttempts > 0 THEN "reset"
                              ELSE "save",
                              0, r.id, r.in))

\* await user.incLoginAttempts(), called on the document the handler loaded.  The method
\* belongs to the User model; what it writes is one of the implementations the
\* specification names: an increment at the store with the lock decided on the counter
\* the store then holds; an increment at the store with the lock decided by the method on
\* the document in its hands, the loaded counter plus one; or a read-then-write in
\* application code, which writes the loaded counter plus one and decides the lock on
\* that.  The three agree whenever the stored counter is the loaded one
FailedLoginWrite(stored, loaded, t) ==
    LET saved == incLoginAttempts(loaded, t)
        lockOfLoaded == IF saved.lockUntil = loaded.lockUntil THEN stored.lockUntil
                        ELSE saved.lockUntil
    IN  {incLoginAttempts(stored, t),
         [stored EXCEPT !.loginAttempts = @ + 1, !.lockUntil = lockOfLoaded],
         [stored EXCEPT !.loginAttempts = saved.loginAttempts, !.lockUntil = lockOfLoaded]}

\* the wrong-password branch: await user.incLoginAttempts()
LoginIncAttempts(k) ==
    LET r == inflight[k]
    IN  /\ At(k, "login", "inc")
        /\ \E written \in FailedLoginWrite(users[r.id], r.in.user, now) :
              users' = [users EXCEPT ![r.id] = written]
        /\ consecFails' = [consecFails EXCEPT ![r.id] = @ + 1]
        /\ Continue(k, Request("login", "fail-log", 0, r.id, r.in))
        /\ UNCHANGED <<auth, auditLog, jwts, rand, now, resp, registered, spentResets>>

\* the wrong-password branch: await AuditLog.createLog, res.status(401)
LoginFailLog(k) ==
    LET r == inflight[k]
    IN  /\ At(k, "login", "fail-log")
        /\ auditLog' = createLog(auditLog,
               AuditEvent(r.id, "LOGIN", r.id, "Invalid password", "MEDIUM", "FAILURE"))
        /\ Finish(k, WithArg(Response("login", 401, "INVALID_CREDENTIALS", r.id, NoToken),
                             <<r.in.password, r.in.user.loginAttempts>>))
        /\ UNCHANGED <<auth, users, jwts, rand, now, consecFails, registered, spentResets>>

\* LoginSuccessUpdate that leaves the counter as it is
LoginSuccessUpdate_NoReset(stored) == stored

\* the stored account after await user.resetLoginAttempts()
LoginSuccessUpdate(stored) == resetLoginAttempts(stored)

\* the success branch when the loaded document shows failed attempts:
\* await user.resetLoginAttempts()
LoginResetAttempts(k) ==
    LET r == inflight[k]
    IN  /\ At(k, "login", "reset")
        /\ users' = [users EXCEPT ![r.id] = LoginSuccessUpdate(@)]
        /\ consecFails' = [consecFails EXCEPT ![r.id] = 0]
        /\ Continue(k, Request("login", "save", 0, r.id, r.in))
        /\ UNCHANGED <<auth, auditLog, jwts, rand, now, resp, registered, spentResets>>

\* the success branch: await user.save() writes lastLogin, the one path the handler
\* modified, then generateToken
LoginSave(k) ==
    LET r == inflight[k]
    IN  /\ At(k, "login", "save")
        /\ Proceed(k, Request("login", "log", 0, r.id,
                              [password |-> r.in.password, user |-> r.in.user,
                               token |-> generateToken(r.id, now)]))

\* the success branch: await AuditLog.createLog, res.json
LoginLog(k) ==
    LET r == inflight[k]
    IN  /\ At(k, "login", "log")
        /\ auditLog' = createLog(auditLog, AuditEvent(r.id, "LOGIN", r.id, "", "LOW", "SUCCESS"))
        /\ jwts' = Keep(r.in.token)
        /\ Finish(k, WithArg(Response("login", 200, "LOGIN_OK", r.id, r.in.token),
                             <<r.in.password, r.in.user.loginAttempts>>))
        /\ UNCHANGED <<auth, users, rand, now, consecFails, registered, spentResets>>

(***************************************************************************)
(* The guards (server/middleware/auth.js).                                 *)
(***************************************************************************)
AuthResult(ok, status, code, uid) == [ok |-> ok, status |-> status, code |-> code, uid |-> uid]

\* authenticateToken up to await User.findById: the Authorization header and jwt.verify
\* at the time the request arrives; the 401 sent, or the id the token names
authenticateToken(tok) ==
    IF tok = NoToken THEN AuthResult(FALSE, 401, "TOKEN_REQUIRED", 0)
    ELSE LET decoded == JwtVerify(tok, now)
         IN  IF decoded.err = "JsonWebTokenError" THEN AuthResult(FALSE, 401, "INVALID_TOKEN", 0)
             ELSE IF decoded.err = "TokenExpiredError" THEN AuthResult(FALSE, 401, "TOKEN_EXPIRED", 0)
             ELSE AuthResult(TRUE, 200, "", decoded.userId)

\* authenticateTokenUser without the isActive and isLocked checks
authenticateTokenUser_NoChecks(uid) ==
    IF uid \notin UserIds THEN AuthResult(FALSE, 401, "INVALID_TOKEN", 0)
    ELSE AuthResult(TRUE, 200, "", uid)

\* authenticateToken after await User.findById(decoded.userId): the checks on the account
\* as it is stored then and the clock as it reads then; the 401 sent, or the account attached to
\* the request
authenticateTokenUser(uid) ==
    IF uid \notin UserIds THEN AuthResult(FALSE, 401, "INVALID_TOKEN", 0)
    ELSE IF ~users[uid].isActive THEN AuthResult(FALSE, 401, "ACCOUNT_DEACTIVATED", uid)
    ELSE IF isLocked(users[uid], now) THEN AuthResult(FALSE, 401, "ACCOUNT_LOCKED", uid)
    ELSE AuthResult(TRUE, 200, "", uid)

\* the response of a request stopped by authenticateToken
AuthResponse(op, a, tok) == WithArg(Response(op, a.status, a.code, a.uid, NoToken), <<tok>>)

\* a request to a route behind authenticateToken arrives: it is answered 401, or suspended
\* at await User.findById with its input (in, the token among it)
AuthenticateToken(op, tok, in) ==
    LET a == authenticateToken(tok)
    IN  IF ~a.ok THEN Reject(AuthResponse(op, a, tok))
        ELSE Start(Request(op, "auth", a.uid, 0, in))

\* RoleAllowed that lets an admin through whatever the allow-list
RoleAllowed_AdminAlways(uid, roles) == users[uid].role \in roles \cup {"admin"}

\* requireRole(...roles): whether next() is called for the authenticated account
RoleAllowed(uid, roles) == users[uid].role \in roles

\* the event requireRole hands to AuditLog.createLog on a denial; the call is not awaited
UnauthorizedEvent(uid) ==
    AuditEvent(uid, "UNAUTHORIZED_ACCESS", uid, users[uid].role, "HIGH", "FAILURE")

\* a createLog call that nobody awaits: its promise has not settled
PendingLog(e) == Request("createLog", "settle", e.user, e.resourceId, [event |-> e])

\* the request at position k is stopped by requireRole: AuditLog.createLog is called
\* without await and the 403 is sent while the write is pending
RoleRejected(k, op, uid) ==
    /\ inflight' = Append(RemoveAt(inflight, k), PendingLog(UnauthorizedEvent(uid)))
    /\ resp' = Response(op, 403, "INSUFFICIENT_PERMISSIONS", uid, NoToken)
    /\ UNCHANGED <<auth, users, auditLog, jwts, rand, now, consecFails, registered, spentResets>>

\* this.create(logData) of a call nobody awaits settles: the document is stored, or the
\* promise is rejected
CreateLogSettle(k) ==
    /\ At(k, "createLog", "settle")
    /\ auditLog' = createLog(auditLog, inflight[k].in.event)
    /\ inflight' = RemoveAt(inflight, k)
    /\ UNCHANGED <<auth, users, jwts, rand, now, resp, consecFails, registered, spentResets>>

\* the rejected promise has no handler: where the process has no unhandledRejection
\* listener Node ends it, and no request in flight is answered
CreateLogCrash(k) ==
    /\ At(k, "createLog", "settle")
    /\ ~AuditValid(inflight[k].in.event)
    /\ inflight' = <<>>
    /\ UNCHANGED <<auth, users, auditLog, jwts, rand, now, resp, consecFails, registered,
                   spentResets>>

(***************************************************************************)
(* The guards as middleware: what each does with a request, given the      *)
(* account attached to it (reqUser, 0 when none is attached).              *)
(***************************************************************************)
\* requireRole(...roles)
requireRole(reqUser, roles) ==
    IF reqUser = 0 THEN AuthResult(FALSE, 401, "AUTH_REQUIRED", 0)
    ELSE IF ~RoleAllowed(reqUser, roles) THEN AuthResult(FALSE, 403, "INSUFFICIENT_PERMISSIONS", reqUser)
    ELSE AuthResult(TRUE, 200, "NEXT", reqUser)

\* the role -> permissions table of hasPermission
rolePermissions ==
    [admin |-> {"*"},
     instructor |-> {"course:create", "course:read", "course:update", "course:delete",
                     "student:read", "grade:create", "grade:read", "grade:update",
                     "assignment:create", "assignment:read", "assignment:update",
                     "assignment:delete", "content:create", "content:read",
                     "content:update", "content:delete"},
     student |-> {"course:read", "assignment:read", "grade:read",
                  "profile:read", "profile:update"}]

\* the properties an object literal inherits from Object.prototype: rolePermissions[role]
\* finds one of them for a role of that name, none of which is an array
ObjectPrototypeKeys ==
    {"constructor", "hasOwnProperty", "isPrototypeOf", "propertyIsEnumerable", "toLocaleString",
     "toString", "valueOf", "__proto__", "__defineGetter__", "__defineSetter__",
     "__lookupGetter__", "__lookupSetter__"}

\* hasPermission that knows no wildcard
hasPermission_NoWildcard(role, permission) ==
    IF role = "" THEN "false"
    ELSE IF role \in DOMAIN rolePermissions
    THEN IF permission \in rolePermissions[role] THEN "true" ELSE "false"
    ELSE IF role \in ObjectPrototypeKeys THEN "TypeError"
    ELSE "false"

\* hasPermission of the client's AuthContext; role "" stands for no signed-in user.  The
\* answer is "true" or "false", or "TypeError" when permissions.includes is not a function
hasPermission(role, permission) ==
    IF role = "" THEN "false"
    ELSE IF role \in DOMAIN rolePermissions
    THEN IF "*" \in rolePermissions[role] \/ permission \in rolePermissions[role]
         THEN "true"
         ELSE "false"
    ELSE IF role \in ObjectPrototypeKeys THEN "TypeError"
    ELSE "false"

\* req.user.hasPermission(permission) of the User model
UserHasPermission(u, permission) ==
    LET permissions == IF u.role \in DOMAIN rolePermissions THEN rolePermissions[u.role] ELSE {}
    IN  "*" \in permissions \/ permission \in permissions

\* requirePermission(permission)
requirePermission(reqUser, permission) ==
    IF reqUser = 0 THEN AuthResult(FALSE, 401, "AUTH_REQUIRED", 0)
    ELSE IF ~UserHasPermission(users[reqUser], permission)
    THEN AuthResult(FALSE, 403, "INSUFFICIENT_PERMISSIONS", reqUser)
    ELSE AuthResult(TRUE, 200, "NEXT", reqUser)

\* req.resource as the guard may find it: absent, without the owner field, or owned
NoResource == [present |-> FALSE, owner |-> 0]
Resource(owner) == [present |-> TRUE, owner |-> owner]

\* requireOwnershipOrRole(resourceField, allowedRoles); hasId tells whether req.params.id
\* is there, owner 0 is a resource without the owner field
requireOwnershipOrRole(reqUser, allowedRoles, hasId, resource) ==
    IF reqUser = 0 THEN AuthResult(FALSE, 401, "AUTH_REQUIRED", 0)
    ELSE IF users[reqUser].role \in allowedRoles THEN AuthResult(TRUE, 200, "NEXT", reqUser)
    ELSE IF ~hasId THEN AuthResult(FALSE, 400, "RESOURCE_ID_REQUIRED", reqUser)
    ELSE IF resource.present /\ resource.owner # 0 /\ resource.owner # reqUser
    THEN AuthResult(FALSE, 403, "NOT_RESOURCE_OWNER", reqUser)
    ELSE AuthResult(TRUE, 200, "NEXT", reqUser)

\* a request passes through requireRole
RequireRole(reqUser, roles) ==
    LET g == requireRole(reqUser, roles)
    IN  /\ reqUser \in UserIds \cup {0}
        /\ IF g.status = 403
           THEN /\ Len(inflight) < MaxInflight
                /\ inflight' = Append(inflight, PendingLog(UnauthorizedEvent(reqUser)))
           ELSE inflight' = inflight
        /\ resp' = WithArg(Response("require-role", g.status, g.code, g.uid, NoToken), <<roles>>)
        /\ UNCHANGED <<auth, users, auditLog, jwts, rand, now, consecFails, registered, spentResets>>

\* a request passes through requirePermission
RequirePermission(reqUser, permission) ==
    LET g == requirePermission(reqUser, permission)
    IN  /\ reqUser \in UserIds \cup {0}
        /\ IF g.status = 403
           THEN /\ Len(inflight) < MaxInflight
                /\ inflight' = Append(inflight, PendingLog(UnauthorizedEvent(reqUser)))
           ELSE inflight' = inflight
        /\ resp' = WithArg(Response("require-permission", g.status, g.code, g.uid, NoToken),
                           <<permission>>)
        /\ UNCHANGED <<auth, users, auditLog, jwts, rand, now, consecFails, registered, spentResets>>

\* a request passes through requireOwnershipOrRole
RequireOwnershipOrRole(reqUser, allowedRoles, hasId, resource) ==
    LET g == requireOwnershipOrRole(reqUser, allowedRoles, hasId, resource)
    IN  /\ reqUser \in UserIds \cup {0}
        /\ Reject(WithArg(Response("require-ownership", g.status, g.code, g.uid, NoToken),
                          <<allowedRoles, hasId, resource>>))

\* a component of the client asks hasPermission; the code of the response is the answer,
\* "TypeError" when the call throws
ClientHasPermission(role, permission) ==
    Reject(WithArg(Response("has-permission", 0, hasPermission(role, permission), 0, NoToken),
                   <<role, permission>>))

(***************************************************************************)
(* ObjectIds in route parameters.                                          *)
(***************************************************************************)
Digits == <<"1", "2", "3", "4", "5", "6", "7", "8", "9">>

\* _id.toString(): lower-case hexadecimal
HexId(i) == <<"a", Digits[i]>>

\* mongoose.Types.ObjectId.isValid on a string of the right length
ObjectIdIsValid(s) == \A i \in DOMAIN s : s[i] \in HexChars

\* User.findById(param): the parameter is cast to an ObjectId, whose value ignores case
FindById(s) ==
    IF \E i \in UserIds : HexId(i) = ToLower(s)
    THEN CHOOSE i \in UserIds : HexId(i) = ToLower(s)
    ELSE 0

\* the :id parameters a client may send: the ids of two accounts, one of them in
\* capitals as well, and a string that is no ObjectId
IdParams == {<<"a", "1">>, <<"a", "2">>, <<"A", "2">>, <<"g", "1">>}

(***************************************************************************)
(* The other routes of server/routes/auth.js.                              *)
(***************************************************************************)
\* LogoutEvent with the action of a login
LogoutEvent_AsLogin(uid) == AuditEvent(uid, "LOGIN", uid, "", "LOW", "SUCCESS")

\* the event POST /auth/logout records
LogoutEvent(uid) == AuditEvent(uid, "LOGOUT", uid, "", "LOW", "SUCCESS")

\* POST /auth/logout arrives
Logout(tok) == AuthenticateToken("logout", tok, [tok |-> tok])

\* POST /auth/logout: await User.findById of authenticateToken, its checks, the handler up
\* to await AuditLog.createLog
LogoutAuth(k) ==
    LET r == inflight[k]
        a == authenticateTokenUser(r.uid)
    IN  /\ At(k, "logout", "auth")
        /\ IF ~a.ok THEN Answer(k, AuthResponse("logout", a, r.in.tok))
           ELSE Proceed(k, Request("logout", "log", r.uid, r.uid, r.in))

\* POST /auth/logout: await AuditLog.createLog, res.json
LogoutLog(k) ==
    LET r == inflight[k]
    IN  /\ At(k, "logout", "log")
        /\ auditLog' = createLog(auditLog, LogoutEvent(r.uid))
        /\ Finish(k, WithArg(Response("logout", 200, "LOGOUT_OK", r.uid, NoToken), <<r.in.tok>>))
        /\ UNCHANGED <<auth, users, jwts, rand, now, consecFails, registered, spentResets>>

\* GET /auth/me arrives
GetMe(tok) == AuthenticateToken("me", tok, [tok |-> tok])

\* GET /auth/me: await User.findById of authenticateToken, its checks, the handler up to
\* await User.findById(req.user._id)
GetMeAuth(k) ==
    LET r == inflight[k]
        a == authenticateTokenUser(r.uid)
    IN  /\ At(k, "me", "auth")
        /\ IF ~a.ok THEN Answer(k, AuthResponse("me", a, r.in.tok))
           ELSE Proceed(k, Request("me", "find", r.uid, r.uid, r.in))

\* GET /auth/me: await User.findById(req.user._id), res.json with the document as it is
\* stored now
GetMeFind(k) ==
    LET r == inflight[k]
    IN  /\ At(k, "me", "find")
        /\ Answer(k, WithArg(Response("me", 200, "ME", r.uid, NoToken),
                             <<r.in.tok, users[r.uid].isActive>>))

\* User.findOne({ emailVerificationToken: token })
FindOneByVerificationToken(token) ==
    IF \E i \in UserIds : users[i].emailVerificationToken = token
    THEN CHOOSE i \in UserIds :
            /\ users[i].emailVerificationToken = token
            /\ \A j \in UserIds : users[j].emailVerificationToken = token => i <= j
    ELSE 0

\* POST /auth/verify-email up to User.findOne; token 0 stands for a body without a token
VerifyEmail(token) ==
    LET id == FindOneByVerificationToken(token)
    IN  IF token = 0
        THEN Reject(WithArg(Response("verify-email", 400, "TOKEN_REQUIRED", 0, NoToken), <<token>>))
        ELSE IF id = 0
        THEN Reject(WithArg(Response("verify-email", 400, "INVALID_TOKEN", 0, NoToken), <<token>>))
        ELSE Start(Request("verify-email", "save", 0, id, [token |-> token, snap |-> users[id]]))

\* the loaded document after the handler's assignments
VerifyEmailUpdate(u) == [u EXCEPT !.isEmailVerified = TRUE, !.emailVerificationToken = 0]

\* POST /auth/verify-email: await user.save()
VerifyEmailSave(k) ==
    LET r == inflight[k]
        doc == VerifyEmailUpdate(r.in.snap)
    IN  /\ At(k, "verify-email", "save")
        /\ users' = [users EXCEPT ![r.id] = SaveFields(@, doc, Modified(r.in.snap, doc))]
        /\ Continue(k, Request("verify-email", "log", 0, r.id, r.in))
        /\ UNCHANGED <<auth, auditLog, jwts, rand, now, resp, consecFails, registered, spentResets>>

\* POST /auth/verify-email: await AuditLog.createLog, res.json
VerifyEmailLog(k) ==
    LET r == inflight[k]
    IN  /\ At(k, "verify-email", "log")
        /\ auditLog' = createLog(auditLog,
               AuditEvent(r.id, "EMAIL_VERIFY", r.id, "", "LOW", "SUCCESS"))
        /\ Finish(k, WithArg(Response("verify-email", 200, "EMAIL_VERIFIED", r.id, NoToken),
                             <<r.in.token>>))
        /\ UNCHANGED <<auth, users, jwts, rand, now, consecFails, registered, spentResets>>

\* the response of POST /auth/forgot-password; id is the account found (0: none),
\* sendOk whether sendEmail resolves (TRUE) or throws (FALSE)
ForgotPasswordResponse(id, sendOk) ==
    IF id = 0 THEN Response("forgot-password", 200, "IF_EXISTS_LINK_SENT", 0, NoToken)
    ELSE IF ~sendOk THEN Response("forgot-password", 500, "EMAIL_SEND_ERROR", id, NoToken)
    ELSE Response("forgot-password", 200, "IF_EXISTS_LINK_SENT", id, NoToken)

\* ForgotPasswordUpdate that leaves a token in place while it has not expired
ForgotPasswordUpdate_KeepActive(u, token, t) ==
    IF u.passwordResetToken # 0 /\ u.passwordResetExpires > t
    THEN u
    ELSE [u EXCEPT !.passwordResetToken = token, !.passwordResetExpires = t + ResetExpiresMin]

\* the account after a reset token was generated for it
ForgotPasswordUpdate(u, token, t) ==
    [u EXCEPT !.passwordResetToken = token, !.passwordResetExpires = t + ResetExpiresMin]

\* POST /auth/forgot-password up to User.findOne, then randomBytes and the expiry
ForgotPassword(rawEmail) ==
    LET email == NormalizeEmail(rawEmail)
        id == FindOneByEmail(email)
    IN  IF id = 0
        THEN Reject(WithArg(ForgotPasswordResponse(0, TRUE), rawEmail))
        ELSE /\ Len(inflight) < MaxInflight
             /\ rand' = rand + 1
             /\ inflight' = Append(inflight,
                    Request("forgot-password", "save", 0, id,
                            [rawEmail |-> rawEmail, snap |-> users[id],
                             doc |-> ForgotPasswordUpdate(users[id], rand + 1, now)]))
             /\ UNCHANGED <<auth, users, auditLog, jwts, now, resp, consecFails, registered,
                            spentResets>>

\* POST /auth/forgot-password: await user.save() writes the modified paths.  The fresh
\* token is one.  The fresh date is one unless it is the date the document held when it
\* was loaded; the clock of the model counts minutes, so two dates of one minute are the
\* same date or not, and the step takes either
ForgotPasswordSave(k) ==
    LET r == inflight[k]
        tracked == Modified(r.in.snap, r.in.doc) \cup {"passwordResetToken"}
    IN  /\ At(k, "forgot-password", "save")
        /\ \E paths \in {tracked, tracked \cup {"passwordResetExpires"}} :
              users' = [users EXCEPT ![r.id] = SaveFields(@, r.in.doc, paths)]
        /\ Continue(k, Request("forgot-password", "send", 0, r.id, r.in))
        /\ UNCHANGED <<auth, auditLog, jwts, rand, now, resp, consecFails, registered, spentResets>>

\* POST /auth/forgot-password: await sendEmail resolves (sendOk) or throws
ForgotPasswordSend(k, sendOk) ==
    LET r == inflight[k]
    IN  /\ At(k, "forgot-password", "send")
        /\ IF sendOk
           THEN Proceed(k, Request("forgot-password", "log", 0, r.id, r.in))
           ELSE Answer(k, WithArg(ForgotPasswordResponse(r.id, FALSE), r.in.rawEmail))

\* POST /auth/forgot-password: await AuditLog.createLog, res.json
ForgotPasswordLog(k) ==
    LET r == inflight[k]
    IN  /\ At(k, "forgot-password", "log")
        /\ auditLog' = createLog(auditLog,
               AuditEvent(r.id, "PASSWORD_RESET", r.id, "requested", "MEDIUM", "SUCCESS"))
        /\ Finish(k, WithArg(ForgotPasswordResponse(r.id, TRUE), r.in.rawEmail))
        /\ UNCHANGED <<auth, users, jwts, rand, now, consecFails, registered, spentResets>>

\* User.findOne({ passwordResetToken: token, passwordResetExpires: { $gt: t } }), t being
\* the Date.now() of the handler when it built the query
FindOneByResetToken(token, t) ==
    LET Match(i) == /\ users[i].passwordResetToken = token
                    /\ users[i].passwordResetExpires > t
    IN  IF \E i \in UserIds : Match(i)
        THEN CHOOSE i \in UserIds : Match(i) /\ \A j \in UserIds : Match(j) => i <= j
        ELSE 0

\* ResetPasswordUpdate that leaves the token and its expiry in place
ResetPasswordUpdate_KeepToken(u, password) == [u EXCEPT !.password = HashPassword(password)]

\* the account after its password was reset
ResetPasswordUpdate(u, password) ==
    [u EXCEPT !.password = HashPassword(password),
              !.passwordResetToken = 0,
              !.passwordResetExpires = 0]

\* POST /auth/reset-password arrives: validation (token 0 stands for an empty token, which
\* the validator refuses), then the query is built with the Date.now() of this moment
ResetPassword(token, password, confirmPassword) ==
    IF token = 0 \/ ~PasswordValid(password) \/ confirmPassword # password
    THEN Reject(WithArg(Response("reset-password", 400, "VALIDATION_FAILED", 0, NoToken),
                        <<token>>))
    ELSE Start(Request("reset-password", "find", 0, 0,
                       [token |-> token, password |-> password, sent |-> now]))

\* POST /auth/reset-password: await User.findOne, the assignments
ResetPasswordFind(k) ==
    LET r == inflight[k]
        id == FindOneByResetToken(r.in.token, r.in.sent)
    IN  /\ At(k, "reset-password", "find")
        /\ IF id = 0
           THEN Answer(k, WithArg(Response("reset-password", 400, "INVALID_TOKEN", 0, NoToken),
                                  <<r.in.token>>))
           ELSE Proceed(k, Request("reset-password", "save", 0, id,
                                   [token |-> r.in.token, password |-> r.in.password,
                                    snap |-> users[id]]))

\* POST /auth/reset-password: await user.save(); the password is a modified path
\* whatever hash the document held
ResetPasswordSave(k) ==
    LET r == inflight[k]
        doc == ResetPasswordUpdate(r.in.snap, r.in.password)
        paths == Modified(r.in.snap, doc) \cup {"password"}
    IN  /\ At(k, "reset-password", "save")
        /\ users' = [users EXCEPT ![r.id] = SaveFields(@, doc, paths)]
        /\ spentResets' = spentResets \cup {r.in.token}
        /\ Continue(k, Request("reset-password", "send", 0, r.id, r.in))
        /\ UNCHANGED <<auth, auditLog, jwts, rand, now, resp, consecFails, registered>>

\* POST /auth/reset-password: await sendEmail resolves, or throws into a catch that only
\* logs
ResetPasswordSend(k) ==
    LET r == inflight[k]
    IN  /\ At(k, "reset-password", "send")
        /\ Proceed(k, Request("reset-password", "log", 0, r.id, r.in))

\* POST /auth/reset-password: await AuditLog.createLog, res.json
ResetPasswordLog(k) ==
    LET r == inflight[k]
    IN  /\ At(k, "reset-password", "log")
        /\ auditLog' = createLog(auditLog,
               AuditEvent(r.id, "PASSWORD_RESET", r.id, "completed", "MEDIUM", "SUCCESS"))
        /\ Finish(k, WithArg(Response("reset-password", 200, "PASSWORD_RESET_OK", r.id, NoToken),
                             <<r.in.token>>))
        /\ UNCHANGED <<auth, users, jwts, rand, now, consecFails, registered, spentResets>>

\* POST /auth/change-password arrives
ChangePassword(tok, currentPassword, password, confirmPassword) ==
    AuthenticateToken("change-password", tok,
                      [tok |-> tok, currentPassword |-> currentPassword,
                       password |-> password, confirmPassword |-> confirmPassword])

\* POST /auth/change-password: await User.findById of authenticateToken, its checks, the
\* validator, the handler up to await User.findById
ChangePasswordAuth(k) ==
    LET r == inflight[k]
        a == authenticateTokenUser(r.uid)
    IN  /\ At(k, "change-password", "auth")
        /\ IF ~a.ok THEN Answer(k, AuthResponse("change-password", a, r.in.tok))
           ELSE IF \/ r.in.currentPassword = <<>>
                   \/ ~PasswordValid(r.in.password)
                   \/ r.in.confirmPassword # r.in.password
           THEN Answer(k, Response("change-password", 400, "VALIDATION_FAILED", r.uid, NoToken))
           ELSE Proceed(k, Request("change-password", "find", r.uid, r.uid, r.in))

\* POST /auth/change-password: await User.findById(...).select('+password')
ChangePasswordFind(k) ==
    LET r == inflight[k]
    IN  /\ At(k, "change-password", "find")
        /\ Proceed(k, Request("change-password", "compare", r.uid, r.uid,
                              [currentPassword |-> r.in.currentPassword,
                               password |-> r.in.password, user |-> users[r.uid]]))

\* POST /auth/change-password: await user.comparePassword(currentPassword) on the loaded
\* document, then the 400 or the assignment of the new password
ChangePasswordCompare(k) ==
    LET r == inflight[k]
    IN  /\ At(k, "change-password", "compare")
        /\ IF ~comparePassword(r.in.user, r.in.currentPassword)
           THEN Answer(k, Response("change-password", 400, "INVALID_CURRENT_PASSWORD", r.uid,
                                   NoToken))
           ELSE Proceed(k, Request("change-password", "save", r.uid, r.uid, r.in))

\* POST /auth/change-password: await user.save() writes the password
ChangePasswordSave(k) ==
    LET r == inflight[k]
    IN  /\ At(k, "change-password", "save")
        /\ users' = [users EXCEPT ![r.uid].password = HashPassword(r.in.password)]
        /\ Continue(k, Request("change-password", "send", r.uid, r.uid, r.in))
        /\ UNCHANGED <<auth, auditLog, jwts, rand, now, resp, consecFails, registered, spentResets>>

\* POST /auth/change-password: await sendEmail resolves, or throws into a catch that only
\* logs
ChangePasswordSend(k) ==
    LET r == inflight[k]
    IN  /\ At(k, "change-password", "send")
        /\ Proceed(k, Request("change-password", "log", r.uid, r.uid, r.in))

\* POST /auth/change-password: await AuditLog.createLog, res.json
ChangePasswordLog(k) ==
    LET r == inflight[k]
    IN  /\ At(k, "change-password", "log")
        /\ auditLog' = createLog(auditLog,
               AuditEvent(r.uid, "PASSWORD_RESET", r.uid, "changed", "MEDIUM", "SUCCESS"))
        /\ Finish(k, Response("change-password", 200, "PASSWORD_CHANGED", r.uid, NoToken))
        /\ UNCHANGED <<auth, users, jwts, rand, now, consecFails, registered, spentResets>>

(***************************************************************************)
(* The routes of server/routes/users.js.                                   *)
(***************************************************************************)
\* GET /users arrives
GetUsers(tok) == AuthenticateToken("users-list", tok, [tok |-> tok])

\* GET /users: await User.findById of authenticateToken, its checks, requireRole('admin'),
\* the handler up to await Promise.all
GetUsersAuth(k) ==
    LET r == inflight[k]
        a == authenticateTokenUser(r.uid)
    IN  /\ At(k, "users-list", "auth")
        /\ IF ~a.ok THEN Answer(k, AuthResponse("users-list", a, r.in.tok))
           ELSE IF ~RoleAllowed(r.uid, {"admin"}) THEN RoleRejected(k, "users-list", r.uid)
           ELSE Proceed(k, Request("users-list", "find", r.uid, 0, r.in))

\* GET /users: await Promise.all([User.find, User.countDocuments]), res.json
GetUsersFind(k) ==
    LET r == inflight[k]
    IN  /\ At(k, "users-list", "find")
        /\ Answer(k, WithArg(Response("users-list", 200, "USERS", r.uid, NoToken), <<r.in.tok>>))

\* the inline check of GET /users/:id and GET /users/:id/activity
OwnerOrAdmin(uid, idParam) == users[uid].role = "admin" \/ HexId(uid) = idParam

\* GET /users/:id arrives
GetUserById(tok, idParam) ==
    AuthenticateToken("users-get", tok, [tok |-> tok, idParam |-> idParam])

\* GET /users/:id: await User.findById of authenticateToken, its checks, the validator, the
\* inline check
GetUserByIdAuth(k) ==
    LET r == inflight[k]
        a == authenticateTokenUser(r.uid)
    IN  /\ At(k, "users-get", "auth")
        /\ IF ~a.ok THEN Answer(k, AuthResponse("users-get", a, r.in.tok))
           ELSE IF ~ObjectIdIsValid(r.in.idParam)
           THEN Answer(k, WithArg(Response("users-get", 400, "VALIDATION_FAILED", r.uid, NoToken),
                                  r.in.idParam))
           ELSE IF ~OwnerOrAdmin(r.uid, r.in.idParam)
           THEN Answer(k, WithArg(Response("users-get", 403, "ACCESS_DENIED", r.uid, NoToken),
                                  r.in.idParam))
           ELSE Proceed(k, Request("users-get", "find", r.uid, 0, r.in))

\* GET /users/:id: await User.findById(id), res.json
GetUserByIdFind(k) ==
    LET r == inflight[k]
    IN  /\ At(k, "users-get", "find")
        /\ Answer(k, IF FindById(r.in.idParam) = 0
                     THEN WithArg(Response("users-get", 404, "USER_NOT_FOUND", r.uid, NoToken),
                                  r.in.idParam)
                     ELSE WithArg(Response("users-get", 200, "USER", r.uid, NoToken),
                                  r.in.idParam))

\* GET /users/:id/activity arrives
GetUserActivity(tok, idParam) ==
    AuthenticateToken("users-activity", tok, [tok |-> tok, idParam |-> idParam])

\* GET /users/:id/activity: await User.findById of authenticateToken, its checks, the
\* validator, the inline check
GetUserActivityAuth(k) ==
    LET r == inflight[k]
        a == authenticateTokenUser(r.uid)
    IN  /\ At(k, "users-activity", "auth")
        /\ IF ~a.ok THEN Answer(k, AuthResponse("users-activity", a, r.in.tok))
           ELSE IF ~ObjectIdIsValid(r.in.idParam)
           THEN Answer(k, WithArg(Response("users-activity", 400, "VALIDATION_FAILED", r.uid,
                                           NoToken),
                                  r.in.idParam))
           ELSE IF ~OwnerOrAdmin(r.uid, r.in.idParam)
           THEN Answer(k, WithArg(Response("users-activity", 403, "ACCESS_DENIED", r.uid, NoToken),
                                  r.in.idParam))
           ELSE Proceed(k, Request("users-activity", "find", r.uid, 0, r.in))

\* GET /users/:id/activity: await AuditLog.getUserActivity, res.json
GetUserActivityFind(k) ==
    LET r == inflight[k]
    IN  /\ At(k, "users-activity", "find")
        /\ Answer(k, WithArg(Response("users-activity", 200, "ACTIVITY", r.uid, NoToken),
                             r.in.idParam))

\* PUT /users/profile: only names, profile and preferences pass the filter
\* allowedUpdates with role among the fields
allowedUpdates_WithRole ==
    {"firstName", "lastName", "profile.bio", "profile.phone", "profile.address",
     "profile.dateOfBirth", "profile.gender", "preferences.notifications",
     "preferences.theme", "preferences.language", "role"}

\* the fields PUT /users/profile may set
allowedUpdates ==
    {"firstName", "lastName", "profile.bio", "profile.phone", "profile.address",
     "profile.dateOfBirth", "profile.gender", "preferences.notifications",
     "preferences.theme", "preferences.language"}

\* a body is a set of <<key, value>> pairs; the pairs whose key is allowed
FilterUpdates(body) == {kv \in body : kv[1] \in allowedUpdates}

\* findByIdAndUpdate(id, { $set: filteredUpdates }); of the fields the model keeps, the
\* role is the one a body names
SetFields(u, filtered) ==
    IF \E kv \in filtered : kv[1] = "role"
    THEN [u EXCEPT !.role = (CHOOSE kv \in filtered : kv[1] = "role")[2]]
    ELSE u

\* userValidations.updateProfile: the rule of each field it names, asked of a field the
\* body holds (optional() skips a field the body lacks); the other fields have no rule
updateProfile(key, value) ==
    CASE key \in {"firstName", "lastName"} -> NameValid(value)
      [] key = "phone" -> PhoneValid(value)
      [] key = "bio" -> Len(value) <= 500
      [] key = "dateOfBirth" -> IsISO8601(value)
      [] key = "gender" ->
             value \in {<<"m", "a", "l", "e">>, <<"f", "e", "m", "a", "l", "e">>,
                        <<"o", "t", "h", "e", "r">>,
                        <<"p", "r", "e", "f", "e", "r", "-", "n", "o", "t", "-", "t", "o", "-",
                          "s", "a", "y">>}
      [] OTHER -> TRUE

\* req.body after the validation chains have run: trim() rewrites the two names
SanitizedBody(body) ==
    {<<kv[1], IF kv[1] \in {"firstName", "lastName"} THEN Trim(kv[2]) ELSE kv[2]>> :
        kv \in body}

\* PUT /users/profile arrives
UpdateProfile(tok, body) == AuthenticateToken("users-profile", tok, [tok |-> tok, body |-> body])

\* PUT /users/profile: await User.findById of authenticateToken and its checks, then
\* userValidations.updateProfile, whose handleValidationErrors answers 400, then the
\* filter of the handler
UpdateProfileAuth(k) ==
    LET r == inflight[k]
        a == authenticateTokenUser(r.uid)
    IN  /\ At(k, "users-profile", "auth")
        /\ IF ~a.ok THEN Answer(k, AuthResponse("users-profile", a, r.in.tok))
           ELSE IF \E kv \in r.in.body : ~updateProfile(kv[1], kv[2])
           THEN Answer(k, WithArg(Response("users-profile", 400, "VALIDATION_FAILED", r.uid,
                                           NoToken),
                                  <<r.in.body>>))
           ELSE Proceed(k, Request("users-profile", "update", r.uid, r.uid,
                                   [tok |-> r.in.tok, body |-> SanitizedBody(r.in.body)]))

\* PUT /users/profile: await User.findByIdAndUpdate
UpdateProfileUpdate(k) ==
    LET r == inflight[k]
    IN  /\ At(k, "users-profile", "update")
        /\ users' = [users EXCEPT ![r.uid] = SetFields(@, FilterUpdates(r.in.body))]
        /\ Continue(k, Request("users-profile", "log", r.uid, r.uid, r.in))
        /\ UNCHANGED <<auth, auditLog, jwts, rand, now, resp, consecFails, registered, spentResets>>

\* PUT /users/profile: await AuditLog.createLog, res.json
UpdateProfileLog(k) ==
    LET r == inflight[k]
    IN  /\ At(k, "users-profile", "log")
        /\ auditLog' = createLog(auditLog,
               AuditEvent(r.uid, "USER_UPDATE", r.uid, "profile", "LOW", "SUCCESS"))
        /\ Finish(k, WithArg(Response("users-profile", 200, "PROFILE_UPDATED", r.uid, NoToken),
                             <<r.in.body>>))
        /\ UNCHANGED <<auth, users, jwts, rand, now, consecFails, registered, spentResets>>

\* the forms of isActive that isBoolean() accepts; "" is an absent field
IsActiveForms ==
    {"", "bool:true", "bool:false", "str:true", "str:false", "str:1", "str:0", "num:1", "num:0"}

\* the schema's Boolean cast of an accepted form
CastBoolean(form) == form \in {"bool:true", "str:true", "str:1", "num:1"}

\* Object.assign(user, updates): every key of the body is assigned, also one no validator
\* names (loginAttempts, lockUntil, password, the tokens, isEmailVerified).  email <<>>,
\* role "" and isActive "" are absent fields; the email was lower-cased by the validator;
\* a password is hashed by the pre-save hook
AssignUpdates(u, upd) ==
    [f \in DOMAIN u |->
        IF f \notin DOMAIN upd THEN u[f]
        ELSE CASE f = "email" -> IF upd.email = <<>> THEN u.email ELSE NormalizeEmail(upd.email)
               [] f = "role" -> IF upd.role = "" THEN u.role ELSE upd.role
               [] f = "isActive" -> IF upd.isActive = "" THEN u.isActive
                                    ELSE CastBoolean(upd.isActive)
               [] f = "isEmailVerified" -> CastBoolean(upd.isEmailVerified)
               [] f = "password" -> HashPassword(upd.password)
               [] OTHER -> upd[f]]

\* the self-deactivation check of PUT /users/:id: updates.isActive === false
DeactivatesSelf(uid, idParam, upd) == idParam = HexId(uid) /\ upd.isActive = "bool:false"

\* userValidations.updateUser: the id, the role when there is one, isActive when there is one
UpdateUserValid(idParam, upd) ==
    /\ ObjectIdIsValid(idParam)
    /\ upd.role \in Roles \cup {""}
    /\ upd.isActive \in IsActiveForms

\* PUT /users/:id arrives
UpdateUser(tok, idParam, upd) ==
    AuthenticateToken("users-update", tok, [tok |-> tok, idParam |-> idParam, upd |-> upd])

\* PUT /users/:id: await User.findById of authenticateToken, its checks,
\* requireRole('admin'), the validator
UpdateUserAuth(k) ==
    LET r == inflight[k]
        a == authenticateTokenUser(r.uid)
    IN  /\ At(k, "users-update", "auth")
        /\ IF ~a.ok THEN Answer(k, AuthResponse("users-update", a, r.in.tok))
           ELSE IF ~RoleAllowed(r.uid, {"admin"}) THEN RoleRejected(k, "users-update", r.uid)
           ELSE IF ~UpdateUserValid(r.in.idParam, r.in.upd)
           THEN Answer(k, WithArg(Response("users-update", 400, "VALIDATION_FAILED", r.uid,
                                           NoToken),
                                  r.in.idParam))
           ELSE Proceed(k, Request("users-update", "find", r.uid, 0, r.in))

\* PUT /users/:id: await User.findById(id), the self-deactivation check, Object.assign
UpdateUserFind(k) ==
    LET r == inflight[k]
        id == FindById(r.in.idParam)
    IN  /\ At(k, "users-update", "find")
        /\ IF id = 0
           THEN Answer(k, WithArg(Response("users-update", 404, "USER_NOT_FOUND", r.uid, NoToken),
                                  r.in.idParam))
           ELSE IF DeactivatesSelf(r.uid, r.in.idParam, r.in.upd)
           THEN Answer(k, WithArg(Response("users-update", 400, "CANNOT_DEACTIVATE_SELF", r.uid,
                                           NoToken),
                                  r.in.idParam))
           ELSE Proceed(k, Request("users-update", "save", r.uid, id,
                                   [idParam |-> r.in.idParam, upd |-> r.in.upd,
                                    snap |-> users[id],
                                    doc |-> AssignUpdates(users[id], r.in.upd)]))

\* PUT /users/:id: await user.save() writes the paths the body changed, and the password
\* whenever the body has one (the loaded document holds none); the unique index refuses a
\* duplicate email
UpdateUserSave(k) ==
    LET r == inflight[k]
        paths == Modified(r.in.snap, r.in.doc) \cup ({"password"} \cap DOMAIN r.in.upd)
    IN  /\ At(k, "users-update", "save")
        /\ IF "email" \in paths /\ EmailTakenByOther(r.id, r.in.doc.email)
           THEN Answer(k, WithArg(Response("users-update", 500, "UPDATE_USER_ERROR", r.uid,
                                           NoToken),
                                  r.in.idParam))
           ELSE /\ users' = [users EXCEPT ![r.id] = SaveFields(@, r.in.doc, paths)]
                /\ Continue(k, Request("users-update", "log", r.uid, r.id, r.in))
                /\ UNCHANGED <<auth, auditLog, jwts, rand, now, resp, consecFails, registered,
                               spentResets>>

\* PUT /users/:id: await AuditLog.createLog
UpdateUserLog(k) ==
    LET r == inflight[k]
    IN  /\ At(k, "users-update", "log")
        /\ auditLog' = createLog(auditLog,
               AuditEvent(r.uid, "USER_UPDATE", r.id, "admin", "MEDIUM", "SUCCESS"))
        /\ Continue(k, Request("users-update", "reply", r.uid, r.id, r.in))
        /\ UNCHANGED <<auth, users, jwts, rand, now, resp, consecFails, registered, spentResets>>

\* PUT /users/:id: await User.findById(id) once more, res.json
UpdateUserReply(k) ==
    LET r == inflight[k]
    IN  /\ At(k, "users-update", "reply")
        /\ Answer(k, WithArg(Response("users-update", 200, "USER_UPDATED", r.uid, NoToken),
                             r.in.idParam))

\* the self-deletion check of DELETE /users/:id
DeletesSelf(uid, idParam) == idParam = HexId(uid)

\* DeletedEmail that leaves the email as it is
DeletedEmail_Unchanged(email, stamp) == email

\* `deleted_${Date.now()}_${user.email}`; the stamp is the clock's reading, the minute and
\* the millisecond within it
DeletedEmail(email, stamp) == [pre |-> <<stamp>> \o email.pre, addr |-> email.addr]

\* the stamps Date.now() has given to deletions: those in the stored emails and those in
\* the documents of the deletions in flight
StampsTaken ==
    UNION {{users[i].email.pre[j] : j \in DOMAIN users[i].email.pre} : i \in UserIds}
    \cup UNION {IF inflight[j].op = "users-delete" /\ inflight[j].pc \in {"save", "log"}
                THEN {inflight[j].in.doc.email.pre[1]}
                ELSE {} : j \in DOMAIN inflight}

\* Date.now() never goes back: a reading in this minute is no earlier than one taken before
ClockReads(ms) == \A s \in StampsTaken : s[1] = now => s[2] <= ms

\* DELETE /users/:id arrives
DeleteUser(tok, idParam) ==
    AuthenticateToken("users-delete", tok, [tok |-> tok, idParam |-> idParam])

\* DELETE /users/:id: await User.findById of authenticateToken, its checks,
\* requireRole('admin'), the validator, the self-deletion check
DeleteUserAuth(k) ==
    LET r == inflight[k]
        a == authenticateTokenUser(r.uid)
    IN  /\ At(k, "users-delete", "auth")
        /\ IF ~a.ok THEN Answer(k, AuthResponse("users-delete", a, r.in.tok))
           ELSE IF ~RoleAllowed(r.uid, {"admin"}) THEN RoleRejected(k, "users-delete", r.uid)
           ELSE IF ~ObjectIdIsValid(r.in.idParam)
           THEN Answer(k, WithArg(Response("users-delete", 400, "VALIDATION_FAILED", r.uid,
                                           NoToken),
                                  r.in.idParam))
           ELSE IF DeletesSelf(r.uid, r.in.idParam)
           THEN Answer(k, WithArg(Response("users-delete", 400, "CANNOT_DELETE_SELF", r.uid,
                                           NoToken),
                                  r.in.idParam))
           ELSE Proceed(k, Request("users-delete", "find", r.uid, 0, r.in))

\* the loaded document after the handler's assignments
DeleteUserUpdate(u, stamp) == [u EXCEPT !.isActive = FALSE, !.email = DeletedEmail(@, stamp)]

\* DELETE /users/:id: await User.findById(id), the assignments; ms is the millisecond
\* Date.now() reads
DeleteUserFind(k, ms) ==
    LET r == inflight[k]
        id == FindById(r.in.idParam)
    IN  /\ At(k, "users-delete", "find")
        /\ IF id = 0
           THEN Answer(k, WithArg(Response("users-delete", 404, "USER_NOT_FOUND", r.uid, NoToken),
                                  r.in.idParam))
           ELSE /\ ClockReads(ms)
                /\ Proceed(k, Request("users-delete", "save", r.uid, id,
                                      [idParam |-> r.in.idParam, snap |-> users[id],
                                       doc |-> DeleteUserUpdate(users[id], <<now, ms>>)]))

\* DELETE /users/:id: await user.save()
DeleteUserSave(k) ==
    LET r == inflight[k]
        paths == Modified(r.in.snap, r.in.doc)
    IN  /\ At(k, "users-delete", "save")
        /\ IF "email" \in paths /\ EmailTakenByOther(r.id, r.in.doc.email)
           THEN Answer(k, WithArg(Response("users-delete", 500, "DELETE_USER_ERROR", r.uid,
                                           NoToken),
                                  r.in.idParam))
           ELSE /\ users' = [users EXCEPT ![r.id] = SaveFields(@, r.in.doc, paths)]
                /\ Continue(k, Request("users-delete", "log", r.uid, r.id, r.in))
                /\ UNCHANGED <<auth, auditLog, jwts, rand, now, resp, consecFails, registered,
                               spentResets>>

\* DELETE /users/:id: await AuditLog.createLog, res.json
DeleteUserLog(k) ==
    LET r == inflight[k]
    IN  /\ At(k, "users-delete", "log")
        /\ auditLog' = createLog(auditLog,
               AuditEvent(r.uid, "USER_DELETE", r.id, "", "HIGH", "SUCCESS"))
        /\ Finish(k, WithArg(Response("users-delete", 200, "USER_DELETED", r.uid, NoToken),
                             r.in.idParam))
        /\ UNCHANGED <<auth, users, jwts, rand, now, consecFails, registered, spentResets>>

(***************************************************************************)
(* The routes of server/routes/admin.js, all behind                        *)
(* router.use(authenticateToken) and router.use(requireRole('admin')).     *)
(***************************************************************************)
\* the read-only routes
AdminReadRoutes ==
    {"dashboard", "analytics", "audit-logs", "users", "courses", "settings", "health"}

\* the calls a read-only route awaits one after the other: a Promise.all is one await,
\* GET /admin/analytics awaits four aggregations, GET /admin/settings and GET /admin/health
\* await nothing
AdminReadAwaits(route) ==
    CASE route = "analytics" -> 4
      [] route \in {"settings", "health"} -> 0
      [] OTHER -> 1

\* a request to a read-only route arrives
AdminRead(tok, route) == AuthenticateToken("admin-read", tok, [tok |-> tok, route |-> route])

\* the read-only routes: await User.findById of authenticateToken, its checks,
\* requireRole('admin'), the handler up to its first await, or to res.json when it has none
AdminReadAuth(k) ==
    LET r == inflight[k]
        a == authenticateTokenUser(r.uid)
    IN  /\ At(k, "admin-read", "auth")
        /\ IF ~a.ok THEN Answer(k, AuthResponse("admin-read", a, r.in.tok))
           ELSE IF ~RoleAllowed(r.uid, {"admin"}) THEN RoleRejected(k, "admin-read", r.uid)
           ELSE IF AdminReadAwaits(r.in.route) = 0
           THEN Answer(k, WithArg(Response("admin-read", 200, "ADMIN_DATA", r.uid, NoToken),
                                  <<r.in.tok, r.in.route>>))
           ELSE Proceed(k, Request("admin-read", "query", r.uid, 0,
                                   [tok |-> r.in.tok, route |-> r.in.route,
                                    left |-> AdminReadAwaits(r.in.route)]))

\* the read-only routes: one awaited query, then the next one or res.json
AdminReadQuery(k) ==
    LET r == inflight[k]
    IN  /\ At(k, "admin-read", "query")
        /\ IF r.in.left > 1
           THEN Proceed(k, Request("admin-read", "query", r.uid, 0,
                                   [r.in EXCEPT !.left = @ - 1]))
           ELSE Answer(k, WithArg(Response("admin-read", 200, "ADMIN_DATA", r.uid, NoToken),
                                  <<r.in.tok, r.in.route>>))

\* PUT /admin/settings arrives; settings is the field of that name in the body, Null when
\* the body has none
AdminUpdateSettings(tok, settings) ==
    AuthenticateToken("admin-settings", tok, [tok |-> tok, settings |-> settings])

\* PUT /admin/settings: await User.findById of authenticateToken, its checks,
\* requireRole('admin'), the handler up to await AuditLog.createLog; Object.keys(settings)
\* throws on a body without settings, before createLog is called
AdminUpdateSettingsAuth(k) ==
    LET r == inflight[k]
        a == authenticateTokenUser(r.uid)
    IN  /\ At(k, "admin-settings", "auth")
        /\ IF ~a.ok THEN Answer(k, AuthResponse("admin-settings", a, r.in.tok))
           ELSE IF ~RoleAllowed(r.uid, {"admin"}) THEN RoleRejected(k, "admin-settings", r.uid)
           ELSE IF r.in.settings = Null
           THEN Answer(k, WithArg(Response("admin-settings", 500, "UPDATE_SETTINGS_ERROR", r.uid,
                                           NoToken),
                                  <<r.in.tok>>))
           ELSE Proceed(k, Request("admin-settings", "log", r.uid, 0, r.in))

\* PUT /admin/settings: await AuditLog.createLog, res.json
AdminUpdateSettingsLog(k) ==
    LET r == inflight[k]
    IN  /\ At(k, "admin-settings", "log")
        /\ auditLog' = createLog(auditLog,
               AuditEvent(r.uid, "SYSTEM_CONFIG_UPDATE", r.uid, "", "HIGH", "SUCCESS"))
        /\ Finish(k, WithArg(Response("admin-settings", 200, "SETTINGS_UPDATED", r.uid, NoToken),
                             <<r.in.tok>>))
        /\ UNCHANGED <<auth, users, jwts, rand, now, consecFails, registered, spentResets>>

ExportTypes == {"users", "courses", "audit-logs"}

\* GET /admin/export/:type arrives
AdminExport(tok, type) == AuthenticateToken("admin-export", tok, [tok |-> tok, type |-> type])

\* GET /admin/export/:type: await User.findById of authenticateToken, its checks,
\* requireRole('admin'), the switch on the type up to the query of the export
AdminExportAuth(k) ==
    LET r == inflight[k]
        a == authenticateTokenUser(r.uid)
    IN  /\ At(k, "admin-export", "auth")
        /\ IF ~a.ok THEN Answer(k, AuthResponse("admin-export", a, r.in.tok))
           ELSE IF ~RoleAllowed(r.uid, {"admin"}) THEN RoleRejected(k, "admin-export", r.uid)
           ELSE IF r.in.type \notin ExportTypes
           THEN Answer(k, WithArg(Response("admin-export", 400, "INVALID_EXPORT_TYPE", r.uid,
                                           NoToken),
                                  <<r.in.tok, r.in.type>>))
           ELSE Proceed(k, Request("admin-export", "find", r.uid, 0, r.in))

\* GET /admin/export/:type: the awaited query
AdminExportFind(k) ==
    LET r == inflight[k]
    IN  /\ At(k, "admin-export", "find")
        /\ Proceed(k, Request("admin-export", "log", r.uid, 0, r.in))

\* GET /admin/export/:type: await AuditLog.createLog, which throws when the event is
\* rejected, res.json
AdminExportLog(k) ==
    LET r == inflight[k]
        e == AuditEvent(r.uid, "DATA_EXPORT", r.uid, r.in.type, "MEDIUM", "SUCCESS")
    IN  /\ At(k, "admin-export", "log")
        /\ auditLog' = createLog(auditLog, e)
        /\ Finish(k, IF ~AuditValid(e)
                     THEN WithArg(Response("admin-export", 500, "EXPORT_ERROR", r.uid, NoToken),
                                  <<r.in.tok, r.in.type>>)
                     ELSE WithArg(Response("admin-export", 200, "EXPORT", r.uid, NoToken),
                                  <<r.in.tok, r.in.type>>))
        /\ UNCHANGED <<auth, users, jwts, rand, now, consecFails, registered, spentResets>>

(***************************************************************************)
(* The client: what its components dispatch to the reducer.                *)
(***************************************************************************)
ReducerAction(type, payload) == [type |-> type, payload |-> payload]

\* dispatch(action)
Dispatch(action) ==
    /\ auth' = authReducer(auth, action)
    /\ UNCHANGED <<users, auditLog, jwts, rand, now, resp, consecFails, registered, spentResets,
                   inflight>>

(***************************************************************************)
(* The clock.                                                              *)
(***************************************************************************)
Tick ==
    /\ now + TickMinutes <= MaxTicks * TickMinutes
    /\ now' = now + TickMinutes
    /\ UNCHANGED <<auth, inflight, users, auditLog, jwts, rand, resp, consecFails, registered, spentResets>>

\* the bounds a step stays within
Within(maxUsers, maxAudit, maxRandom) ==
    /\ Len(users') <= maxUsers
    /\ Len(auditLog') <= maxAudit
    /\ rand' <= maxRandom

(***************************************************************************)
(* What clients send.                                                      *)
(***************************************************************************)
\* the bodies of PUT /users/:id
UpdateBody(email, role, isActive) == [email |-> email, role |-> role, isActive |-> isActive]

UpdateBodies ==
    {UpdateBody(<<>>, "", "bool:false"), UpdateBody(<<>>, "", "str:false"),
     UpdateBody(<<"B">>, "", ""), UpdateBody(<<>>, "admin", "bool:true"),
     UpdateBody(<<>>, "instructor", "")}

\* the bodies of PUT /users/profile: a name between spaces, a name with a role, and two
\* bodies with a role that the validation refuses: a name of one letter once trimmed, and
\* a date of birth in month 13
ProfileBodies ==
    {{<<"firstName", <<" ", "A", "l", " ">>>>},
     {<<"firstName", <<"A", "l">>>>, <<"role", "admin">>},
     {<<"firstName", <<" ", "A">>>>, <<"role", "admin">>},
     {<<"dateOfBirth", <<"2", "0", "0", "0", "-", "1", "3", "-", "0", "1">>>>,
      <<"role", "admin">>}}

\* reset and verification tokens: none, any value randomBytes may have produced, a made-up one
TokenInputs == 0..(MaxRandom + 1)

\* the requests a step leaves in flight
Pending(n) == Len(inflight') <= n

(***************************************************************************)
(* Every route, within small bounds.                                       *)
(***************************************************************************)
\* bodies of PUT /users/:id that assign a role, and one with a key no validator names
RoleUpdates ==
    {UpdateBody(<<>>, "admin", "bool:true"), UpdateBody(<<>>, "instructor", ""),
     [email |-> <<>>, role |-> "", isActive |-> "", loginAttempts |-> 4]}

\* the bounds of every step
Bounded == Within(MaxUsersRace, MaxAuditRace, MaxRandomReset) /\ Pending(MaxPending)

Next ==
    \/ \E e \in {<<"a">>, <<"B">>, <<"c">>}, r \in BodyRoles :
          Register(e, StrongPw, StrongPw, r) /\ Bounded
    \/ \E p \in {WeakPw, HashFirstPw, TwoLinePw} : Register(<<"c">>, p, p, "") /\ Bounded
    \/ Register(<<"c">>, StrongPw, OtherPw, "") /\ Bounded
    \/ \E p \in {StrongPw, OtherPw, <<>>} : Login(<<"a">>, p) /\ Bounded
    \/ Login(<<"b">>, StrongPw) /\ Bounded
    \/ \E tok \in jwts : Logout(tok) /\ Bounded
    \/ \E tok \in jwts \cup {NoToken} : GetMe(tok) /\ Bounded
    \/ \E t \in TokenInputs : VerifyEmail(t) /\ Bounded
    \/ ForgotPassword(<<"a">>) /\ Bounded
    \/ \E t \in TokenInputs : ResetPassword(t, OtherPw, OtherPw) /\ Bounded
    \/ ResetPassword(MaxRandomReset, WeakPw, WeakPw) /\ Bounded
    \/ \E tok \in jwts, c \in {StrongPw, <<>>} : ChangePassword(tok, c, OtherPw, OtherPw) /\ Bounded
    \/ \E tok \in jwts, p \in {WeakPw, OtherPw} : ChangePassword(tok, StrongPw, p, WeakPw) /\ Bounded
    \/ \E tok \in jwts : GetUsers(tok) /\ Bounded
    \/ \E tok \in jwts : GetUserById(tok, <<"a", "1">>) /\ Bounded
    \/ \E tok \in jwts : GetUserActivity(tok, <<"a", "1">>) /\ Bounded
    \/ \E tok \in jwts, body \in ProfileBodies : UpdateProfile(tok, body) /\ Bounded
    \/ \E tok \in jwts \cup {NoToken}, id \in {<<"a", "1">>, <<"a", "2">>}, upd \in RoleUpdates :
          UpdateUser(tok, id, upd) /\ Bounded
    \/ \E tok \in jwts, id \in {<<"a", "1">>, <<"a", "2">>} : DeleteUser(tok, id) /\ Bounded
    \/ \E tok \in jwts \cup {NoToken}, route \in {"dashboard", "analytics", "health"} :
          AdminRead(tok, route) /\ Bounded
    \/ \E tok \in jwts, s \in {Null, [theme |-> "dark"]} : AdminUpdateSettings(tok, s) /\ Bounded
    \/ \E tok \in jwts, type \in {"users", "grades"} : AdminExport(tok, type) /\ Bounded
    \/ \E k \in 1..MaxPending : RegisterSave(k) /\ Bounded
    \/ \E k \in 1..MaxPending : RegisterLog(k) /\ Bounded
    \/ \E k \in 1..MaxPending : RegisterSend(k) /\ Bounded
    \/ \E k \in 1..MaxPending : LoginCompare(k) /\ Bounded
    \/ \E k \in 1..MaxPending : LoginIncAttempts(k) /\ Bounded
    \/ \E k \in 1..MaxPending : LoginFailLog(k) /\ Bounded
    \/ \E k \in 1..MaxPending : LoginResetAttempts(k) /\ Bounded
    \/ \E k \in 1..MaxPending : LoginSave(k) /\ Bounded
    \/ \E k \in 1..MaxPending : LoginLog(k) /\ Bounded
    \/ \E k \in 1..MaxPending : LogoutAuth(k) /\ Bounded
    \/ \E k \in 1..MaxPending : LogoutLog(k) /\ Bounded
    \/ \E k \in 1..MaxPending : GetMeAuth(k) /\ Bounded
    \/ \E k \in 1..MaxPending : GetMeFind(k) /\ Bounded
    \/ \E k \in 1..MaxPending : VerifyEmailSave(k) /\ Bounded
    \/ \E k \in 1..MaxPending : VerifyEmailLog(k) /\ Bounded
    \/ \E k \in 1..MaxPending : ForgotPasswordSave(k) /\ Bounded
    \/ \E k \in 1..MaxPending, ok \in BOOLEAN : ForgotPasswordSend(k, ok) /\ Bounded
    \/ \E k \in 1..MaxPending : ForgotPasswordLog(k) /\ Bounded
    \/ \E k \in 1..MaxPending : ResetPasswordFind(k) /\ Bounded
    \/ \E k \in 1..MaxPending : ResetPasswordSave(k) /\ Bounded
    \/ \E k \in 1..MaxPending : ResetPasswordSend(k) /\ Bounded
    \/ \E k \in 1..MaxPending : ResetPasswordLog(k) /\ Bounded
    \/ \E k \in 1..MaxPending : ChangePasswordAuth(k) /\ Bounded
    \/ \E k \in 1..MaxPending : ChangePasswordFind(k) /\ Bounded
    \/ \E k \in 1..MaxPending : ChangePasswordCompare(k) /\ Bounded
    \/ \E k \in 1..MaxPending : ChangePasswordSave(k) /\ Bounded
    \/ \E k \in 1..MaxPending : ChangePasswordSend(k) /\ Bounded
    \/ \E k \in 1..MaxPending : ChangePasswordLog(k) /\ Bounded
    \/ \E k \in 1..MaxPending : GetUsersAuth(k) /\ Bounded
    \/ \E k \in 1..MaxPending : GetUsersFind(k) /\ Bounded
    \/ \E k \in 1..MaxPending : GetUserByIdAuth(k) /\ Bounded
    \/ \E k \in 1..MaxPending : GetUserByIdFind(k) /\ Bounded
    \/ \E k \in 1..MaxPending : GetUserActivityAuth(k) /\ Bounded
    \/ \E k \in 1..MaxPending : GetUserActivityFind(k) /\ Bounded
    \/ \E k \in 1..MaxPending : UpdateProfileAuth(k) /\ Bounded
    \/ \E k \in 1..MaxPending : UpdateProfileUpdate(k) /\ Bounded
    \/ \E k \in 1..MaxPending : UpdateProfileLog(k) /\ Bounded
    \/ \E k \in 1..MaxPending : UpdateUserAuth(k) /\ Bounded
    \/ \E k \in 1..MaxPending : UpdateUserFind(k) /\ Bounded
    \/ \E k \in 1..MaxPending : UpdateUserSave(k) /\ Bounded
    \/ \E k \in 1..MaxPending : UpdateUserLog(k) /\ Bounded
    \/ \E k \in 1..MaxPending : UpdateUserReply(k) /\ Bounded
    \/ \E k \in 1..MaxPending : DeleteUserAuth(k) /\ Bounded
    \/ \E k \in 1..MaxPending, ms \in 0..MaxMs : DeleteUserFind(k, ms) /\ Bounded
    \/ \E k \in 1..MaxPending : DeleteUserSave(k) /\ Bounded
    \/ \E k \in 1..MaxPending : DeleteUserLog(k) /\ Bounded
    \/ \E k \in 1..MaxPending : AdminReadAuth(k) /\ Bounded
    \/ \E k \in 1..MaxPending : AdminReadQuery(k) /\ Bounded
    \/ \E k \in 1..MaxPending : AdminUpdateSettingsAuth(k) /\ Bounded
    \/ \E k \in 1..MaxPending : AdminUpdateSettingsLog(k) /\ Bounded
    \/ \E k \in 1..MaxPending : AdminExportAuth(k) /\ Bounded
    \/ \E k \in 1..MaxPending : AdminExportFind(k) /\ Bounded
    \/ \E k \in 1..MaxPending : AdminExportLog(k) /\ Bounded
    \/ \E k \in 1..MaxPending : CreateLogSettle(k) /\ Bounded
    \/ \E k \in 1..MaxPending : CreateLogCrash(k) /\ Bounded

Spec == Init /\ [][Next]_vars


(***************************************************************************)
(* States the scenarios start from.  Each is a state the routes reach from *)
(* Init: registrations, and wrong passwords where the scenario has failed  *)
(* logins on record.                                                       *)
(***************************************************************************)
\* the token the admin of a scenario was given at registration
AdminToken == generateToken(2, 0)

\* the state after the registrations of a student and of an admin
InitTwoAccounts ==
    /\ users = <<NewUser(NormalizeEmail(<<"a">>), StrongPw, "student", 1),
                 NewUser(NormalizeEmail(<<"b">>), StrongPw, "admin", 2)>>
    /\ auditLog = <<AuditEvent(1, "REGISTER", 1, "", "LOW", "SUCCESS"),
                    AuditEvent(2, "REGISTER", 2, "", "LOW", "SUCCESS")>>
    /\ jwts = {generateToken(1, 0), AdminToken}
    /\ rand = 2
    /\ now = 0
    /\ resp = WithArg(Response("register", 201, "REGISTERED", 2, AdminToken), <<"b">>)
    /\ consecFails = <<0, 0>>
    /\ registered = {NormalizeEmail(<<"a">>), NormalizeEmail(<<"b">>)}
    /\ spentResets = {}
    /\ inflight = <<>>
    /\ auth = initialState(Null)

(***************************************************************************)
(* Registration and login of one account: requests that overlap, and enough *)
(* room in the log for a lockout.                                          *)
(***************************************************************************)
\* the bounds of every step
BoundedLogin == Within(OneAccount, MaxAuditLogin, MaxRandom) /\ Pending(MaxPending)

NextLogin ==
    \/ Register(<<"A">>, StrongPw, StrongPw, "") /\ BoundedLogin
    \/ \E e \in {<<"a">>, <<"A">>}, p \in Passwords : Login(e, p) /\ BoundedLogin
    \/ \E tok \in jwts : GetMe(tok) /\ BoundedLogin
    \/ \E k \in 1..MaxPending : RegisterSave(k) /\ BoundedLogin
    \/ \E k \in 1..MaxPending : RegisterLog(k) /\ BoundedLogin
    \/ \E k \in 1..MaxPending : RegisterSend(k) /\ BoundedLogin
    \/ \E k \in 1..MaxPending : LoginCompare(k) /\ BoundedLogin
    \/ \E k \in 1..MaxPending : LoginIncAttempts(k) /\ BoundedLogin
    \/ \E k \in 1..MaxPending : LoginFailLog(k) /\ BoundedLogin
    \/ \E k \in 1..MaxPending : LoginResetAttempts(k) /\ BoundedLogin
    \/ \E k \in 1..MaxPending : LoginSave(k) /\ BoundedLogin
    \/ \E k \in 1..MaxPending : LoginLog(k) /\ BoundedLogin
    \/ \E k \in 1..MaxPending : GetMeAuth(k) /\ BoundedLogin
    \/ \E k \in 1..MaxPending : GetMeFind(k) /\ BoundedLogin

SpecLogin == Init /\ [][NextLogin]_vars


(***************************************************************************)
(* Sessions: a student and an admin hold tokens; the admin may deactivate or *)
(* delete the student while the student's requests are in flight.          *)
(***************************************************************************)
\* the body of a PUT /users/:id that deactivates
Deactivate == UpdateBody(<<>>, "", "bool:false")

\* the failed logins the student has on record: one more locks the account
FailuresBeforeLock == MaxLoginAttempts - 1

\* the state after the registrations of a student and of an admin, and after the student's
\* wrong passwords
InitSession ==
    /\ users = <<[NewUser(NormalizeEmail(<<"a">>), StrongPw, "student", 1)
                    EXCEPT !.loginAttempts = FailuresBeforeLock],
                 NewUser(NormalizeEmail(<<"b">>), StrongPw, "admin", 2)>>
    /\ auditLog = <<AuditEvent(1, "REGISTER", 1, "", "LOW", "SUCCESS"),
                    AuditEvent(2, "REGISTER", 2, "", "LOW", "SUCCESS")>>
                  \o [i \in 1..FailuresBeforeLock |->
                        AuditEvent(1, "LOGIN", 1, "Invalid password", "MEDIUM", "FAILURE")]
    /\ jwts = {generateToken(1, 0), generateToken(2, 0)}
    /\ rand = 2
    /\ now = 0
    /\ resp = WithArg(Response("login", 401, "INVALID_CREDENTIALS", 1, NoToken),
                      <<OtherPw, FailuresBeforeLock - 1>>)
    /\ consecFails = <<FailuresBeforeLock, 0>>
    /\ registered = {NormalizeEmail(<<"a">>), NormalizeEmail(<<"b">>)}
    /\ spentResets = {}
    /\ inflight = <<>>
    /\ auth = initialState(Null)

\* the bounds of every step
BoundedSession == Within(MaxUsers, MaxAuditSession, MaxRandom) /\ Pending(MaxPending)

NextSession ==
    \/ \E e \in {<<"a">>, <<"c">>}, p \in Passwords : Login(e, p) /\ BoundedSession
    \/ \E tok \in jwts : Logout(tok) /\ BoundedSession
    \/ \E tok \in jwts : GetMe(tok) /\ BoundedSession
    \/ UpdateUser(AdminToken, <<"a", "1">>, Deactivate) /\ BoundedSession
    \/ DeleteUser(AdminToken, <<"a", "1">>) /\ BoundedSession
    \/ \E k \in 1..MaxPending : LoginCompare(k) /\ BoundedSession
    \/ \E k \in 1..MaxPending : LoginIncAttempts(k) /\ BoundedSession
    \/ \E k \in 1..MaxPending : LoginFailLog(k) /\ BoundedSession
    \/ \E k \in 1..MaxPending : LoginResetAttempts(k) /\ BoundedSession
    \/ \E k \in 1..MaxPending : LoginSave(k) /\ BoundedSession
    \/ \E k \in 1..MaxPending : LoginLog(k) /\ BoundedSession
    \/ \E k \in 1..MaxPending : LogoutAuth(k) /\ BoundedSession
    \/ \E k \in 1..MaxPending : LogoutLog(k) /\ BoundedSession
    \/ \E k \in 1..MaxPending : GetMeAuth(k) /\ BoundedSession
    \/ \E k \in 1..MaxPending : GetMeFind(k) /\ BoundedSession
    \/ \E k \in 1..MaxPending : UpdateUserAuth(k) /\ BoundedSession
    \/ \E k \in 1..MaxPending : UpdateUserFind(k) /\ BoundedSession
    \/ \E k \in 1..MaxPending : UpdateUserSave(k) /\ BoundedSession
    \/ \E k \in 1..MaxPending : UpdateUserLog(k) /\ BoundedSession
    \/ \E k \in 1..MaxPending : UpdateUserReply(k) /\ BoundedSession
    \/ \E k \in 1..MaxPending : DeleteUserAuth(k) /\ BoundedSession
    \/ \E k \in 1..MaxPending, ms \in 0..MaxMs : DeleteUserFind(k, ms) /\ BoundedSession
    \/ \E k \in 1..MaxPending : DeleteUserSave(k) /\ BoundedSession
    \/ \E k \in 1..MaxPending : DeleteUserLog(k) /\ BoundedSession

SpecSession == InitSession /\ [][NextSession]_vars


(***************************************************************************)
(* Lockout and expiry: one account with failed logins on record, while the *)
(* clock moves.                                                            *)
(***************************************************************************)
\* the state after the registration of a student and the student's wrong passwords
InitLockout ==
    /\ users = <<[NewUser(NormalizeEmail(<<"a">>), StrongPw, "student", 1)
                    EXCEPT !.loginAttempts = FailuresBeforeLock]>>
    /\ auditLog = <<AuditEvent(1, "REGISTER", 1, "", "LOW", "SUCCESS")>>
                  \o [i \in 1..FailuresBeforeLock |->
                        AuditEvent(1, "LOGIN", 1, "Invalid password", "MEDIUM", "FAILURE")]
    /\ jwts = {generateToken(1, 0)}
    /\ rand = 1
    /\ now = 0
    /\ resp = WithArg(Response("login", 401, "INVALID_CREDENTIALS", 1, NoToken),
                      <<OtherPw, FailuresBeforeLock - 1>>)
    /\ consecFails = <<FailuresBeforeLock>>
    /\ registered = {NormalizeEmail(<<"a">>)}
    /\ spentResets = {}
    /\ inflight = <<>>
    /\ auth = initialState(Null)

\* the bounds of every step
BoundedLockout == Within(OneAccount, MaxAuditSession, MaxRandom) /\ Pending(MaxPending)

NextLockout ==
    \/ \E e \in {<<"a">>, <<"A">>}, p \in Passwords : Login(e, p) /\ BoundedLockout
    \/ \E tok \in Presentable : GetMe(tok) /\ BoundedLockout
    \/ \E k \in 1..MaxPending : LoginCompare(k) /\ BoundedLockout
    \/ \E k \in 1..MaxPending : LoginIncAttempts(k) /\ BoundedLockout
    \/ \E k \in 1..MaxPending : LoginFailLog(k) /\ BoundedLockout
    \/ \E k \in 1..MaxPending : LoginResetAttempts(k) /\ BoundedLockout
    \/ \E k \in 1..MaxPending : LoginSave(k) /\ BoundedLockout
    \/ \E k \in 1..MaxPending : LoginLog(k) /\ BoundedLockout
    \/ \E k \in 1..MaxPending : GetMeAuth(k) /\ BoundedLockout
    \/ \E k \in 1..MaxPending : GetMeFind(k) /\ BoundedLockout
    \/ Tick

SpecLockout == InitLockout /\ [][NextLockout]_vars


(***************************************************************************)
(* The routes on accounts, called by a student and by an admin while other *)
(* requests are in flight.                                                 *)
(***************************************************************************)
\* bodies of PUT /users/:id whose isActive denotes false: the boolean and the string
Deactivations == {UpdateBody(<<>>, "", "bool:false"), UpdateBody(<<>>, "", "str:false")}

\* the bounds of every step
BoundedAccounts == Within(MaxUsers, MaxAuditAccounts, MaxRandom) /\ Pending(MaxPending)

NextAccounts ==
    \/ \E tok \in jwts, id \in {<<"a", "1">>, <<"a", "2">>, <<"g", "1">>} :
          GetUserById(tok, id) /\ BoundedAccounts
    \/ \E tok \in jwts, id \in {<<"a", "1">>, <<"a", "2">>}, upd \in Deactivations :
          UpdateUser(tok, id, upd) /\ BoundedAccounts
    \/ \E tok \in jwts, id \in {<<"a", "2">>, <<"A", "2">>} : DeleteUser(tok, id) /\ BoundedAccounts
    \/ \E k \in 1..MaxPending : GetUserByIdAuth(k) /\ BoundedAccounts
    \/ \E k \in 1..MaxPending : GetUserByIdFind(k) /\ BoundedAccounts
    \/ \E k \in 1..MaxPending : UpdateUserAuth(k) /\ BoundedAccounts
    \/ \E k \in 1..MaxPending : UpdateUserFind(k) /\ BoundedAccounts
    \/ \E k \in 1..MaxPending : UpdateUserSave(k) /\ BoundedAccounts
    \/ \E k \in 1..MaxPending : UpdateUserLog(k) /\ BoundedAccounts
    \/ \E k \in 1..MaxPending : UpdateUserReply(k) /\ BoundedAccounts
    \/ \E k \in 1..MaxPending : DeleteUserAuth(k) /\ BoundedAccounts
    \/ \E k \in 1..MaxPending, ms \in 0..MaxMs : DeleteUserFind(k, ms) /\ BoundedAccounts
    \/ \E k \in 1..MaxPending : DeleteUserSave(k) /\ BoundedAccounts
    \/ \E k \in 1..MaxPending : DeleteUserLog(k) /\ BoundedAccounts
    \/ \E k \in 1..MaxPending : CreateLogSettle(k) /\ BoundedAccounts
    \/ \E k \in 1..MaxPending : CreateLogCrash(k) /\ BoundedAccounts

SpecAccounts == InitTwoAccounts /\ [][NextAccounts]_vars


(***************************************************************************)
(* The admin routes and the list of accounts, called by a student and by an *)
(* admin while other requests are in flight.                               *)
(***************************************************************************)
\* the bounds of every step
BoundedAdmin == Within(MaxUsers, MaxAuditAccounts, MaxRandom) /\ Pending(MaxPending)

NextAdmin ==
    \/ \E tok \in jwts : GetUsers(tok) /\ BoundedAdmin
    \/ \E tok \in jwts : GetUserActivity(tok, <<"a", "2">>) /\ BoundedAdmin
    \/ \E tok \in jwts, route \in {"dashboard", "analytics", "settings"} :
          AdminRead(tok, route) /\ BoundedAdmin
    \/ \E tok \in jwts, s \in {Null, [theme |-> "dark"]} : AdminUpdateSettings(tok, s) /\ BoundedAdmin
    \/ \E tok \in jwts, type \in {"users", "grades"} : AdminExport(tok, type) /\ BoundedAdmin
    \/ \E k \in 1..MaxPending : GetUsersAuth(k) /\ BoundedAdmin
    \/ \E k \in 1..MaxPending : GetUsersFind(k) /\ BoundedAdmin
    \/ \E k \in 1..MaxPending : GetUserActivityAuth(k) /\ BoundedAdmin
    \/ \E k \in 1..MaxPending : GetUserActivityFind(k) /\ BoundedAdmin
    \/ \E k \in 1..MaxPending : AdminReadAuth(k) /\ BoundedAdmin
    \/ \E k \in 1..MaxPending : AdminReadQuery(k) /\ BoundedAdmin
    \/ \E k \in 1..MaxPending : AdminUpdateSettingsAuth(k) /\ BoundedAdmin
    \/ \E k \in 1..MaxPending : AdminUpdateSettingsLog(k) /\ BoundedAdmin
    \/ \E k \in 1..MaxPending : AdminExportAuth(k) /\ BoundedAdmin
    \/ \E k \in 1..MaxPending : AdminExportFind(k) /\ BoundedAdmin
    \/ \E k \in 1..MaxPending : AdminExportLog(k) /\ BoundedAdmin
    \/ \E k \in 1..MaxPending : CreateLogSettle(k) /\ BoundedAdmin
    \/ \E k \in 1..MaxPending : CreateLogCrash(k) /\ BoundedAdmin

SpecAdmin == InitTwoAccounts /\ [][NextAdmin]_vars


(***************************************************************************)
(* The two routes that write an account's fields from a body, called by a  *)
(* student, by an admin and without a session.                             *)
(***************************************************************************)
\* bodies of PUT /users/:id that assign a role
RoleBodiesOfUpdate == {UpdateBody(<<>>, "admin", "bool:true"), UpdateBody(<<>>, "instructor", "")}

\* the bounds of every step
BoundedRoles == Within(MaxUsers, MaxAuditVerify, MaxRandom) /\ Pending(MaxPending)

NextRoles ==
    \/ \E tok \in jwts, body \in ProfileBodies : UpdateProfile(tok, body) /\ BoundedRoles
    \/ \E tok \in Presentable, upd \in RoleBodiesOfUpdate :
          UpdateUser(tok, <<"a", "1">>, upd) /\ BoundedRoles
    \/ \E k \in 1..MaxPending : UpdateProfileAuth(k) /\ BoundedRoles
    \/ \E k \in 1..MaxPending : UpdateProfileUpdate(k) /\ BoundedRoles
    \/ \E k \in 1..MaxPending : UpdateProfileLog(k) /\ BoundedRoles
    \/ \E k \in 1..MaxPending : UpdateUserAuth(k) /\ BoundedRoles
    \/ \E k \in 1..MaxPending : UpdateUserFind(k) /\ BoundedRoles
    \/ \E k \in 1..MaxPending : UpdateUserSave(k) /\ BoundedRoles
    \/ \E k \in 1..MaxPending : UpdateUserLog(k) /\ BoundedRoles
    \/ \E k \in 1..MaxPending : UpdateUserReply(k) /\ BoundedRoles
    \/ \E k \in 1..MaxPending : CreateLogSettle(k) /\ BoundedRoles
    \/ \E k \in 1..MaxPending : CreateLogCrash(k) /\ BoundedRoles

SpecRoles == InitTwoAccounts /\ [][NextRoles]_vars


(***************************************************************************)
(* Password reset for one account; requests may overlap.                   *)
(***************************************************************************)
\* the state after the registration of a student
InitOneAccount ==
    /\ users = <<NewUser(NormalizeEmail(<<"a">>), StrongPw, "student", 1)>>
    /\ auditLog = <<AuditEvent(1, "REGISTER", 1, "", "LOW", "SUCCESS")>>
    /\ jwts = {generateToken(1, 0)}
    /\ rand = 1
    /\ now = 0
    /\ resp = WithArg(Response("register", 201, "REGISTERED", 1, generateToken(1, 0)), <<"a">>)
    /\ consecFails = <<0>>
    /\ registered = {NormalizeEmail(<<"a">>)}
    /\ spentResets = {}
    /\ inflight = <<>>
    /\ auth = initialState(Null)

\* the bounds of every step
BoundedReset == Within(OneAccount, MaxAuditReset, MaxRandomReset) /\ Pending(MaxPending)

NextReset ==
    \/ \E e \in {<<"A">>, <<"b">>} : ForgotPassword(e) /\ BoundedReset
    \/ \E t \in 0..MaxRandomReset : ResetPassword(t, OtherPw, OtherPw) /\ BoundedReset
    \/ \E p \in {OtherPw, WeakPw} : ResetPassword(MaxRandomReset, p, WeakPw) /\ BoundedReset
    \/ \E k \in 1..MaxPending : ForgotPasswordSave(k) /\ BoundedReset
    \/ \E k \in 1..MaxPending, ok \in BOOLEAN : ForgotPasswordSend(k, ok) /\ BoundedReset
    \/ \E k \in 1..MaxPending : ForgotPasswordLog(k) /\ BoundedReset
    \/ \E k \in 1..MaxPending : ResetPasswordFind(k) /\ BoundedReset
    \/ \E k \in 1..MaxPending : ResetPasswordSave(k) /\ BoundedReset
    \/ \E k \in 1..MaxPending : ResetPasswordSend(k) /\ BoundedReset
    \/ \E k \in 1..MaxPending : ResetPasswordLog(k) /\ BoundedReset
    \/ Tick

SpecReset == InitOneAccount /\ [][NextReset]_vars


(***************************************************************************)
(* Concurrent requests: registrations, admin updates and deletions, next to *)
(* an admin account.                                                       *)
(***************************************************************************)
\* the email fields of the PUT /users/:id bodies
EmailUpdates == {UpdateBody(<<"A">>, "", ""), UpdateBody(<<"b">>, "", "")}

\* the token the first account was given at registration
FirstToken == generateToken(1, 0)

\* the state after the registration of an admin
InitRaceRegister ==
    /\ users = <<NewUser(NormalizeEmail(<<"a">>), StrongPw, "admin", 1)>>
    /\ auditLog = <<AuditEvent(1, "REGISTER", 1, "", "LOW", "SUCCESS")>>
    /\ jwts = {FirstToken}
    /\ rand = 1
    /\ now = 0
    /\ resp = WithArg(Response("register", 201, "REGISTERED", 1, FirstToken), <<"a">>)
    /\ consecFails = <<0>>
    /\ registered = {NormalizeEmail(<<"a">>)}
    /\ spentResets = {}
    /\ inflight = <<>>
    /\ auth = initialState(Null)

\* the bounds of every step
BoundedRaceRegister == Within(MaxUsersRace, MaxAuditRace, MaxRandomRace) /\ Pending(MaxPending)

NextRaceRegister ==
    \/ \E e \in RawEmails : Register(e, StrongPw, StrongPw, "") /\ BoundedRaceRegister
    \/ \E i \in 1..MaxUsers, upd \in EmailUpdates : UpdateUser(FirstToken, HexId(i), upd) /\ BoundedRaceRegister
    \/ \E i \in 2..MaxUsersRace : DeleteUser(FirstToken, HexId(i)) /\ BoundedRaceRegister
    \/ \E k \in 1..MaxPending : RegisterSave(k) /\ BoundedRaceRegister
    \/ \E k \in 1..MaxPending : RegisterLog(k) /\ BoundedRaceRegister
    \/ \E k \in 1..MaxPending : RegisterSend(k) /\ BoundedRaceRegister
    \/ \E k \in 1..MaxPending : UpdateUserAuth(k) /\ BoundedRaceRegister
    \/ \E k \in 1..MaxPending : UpdateUserFind(k) /\ BoundedRaceRegister
    \/ \E k \in 1..MaxPending : UpdateUserSave(k) /\ BoundedRaceRegister
    \/ \E k \in 1..MaxPending : UpdateUserLog(k) /\ BoundedRaceRegister
    \/ \E k \in 1..MaxPending : UpdateUserReply(k) /\ BoundedRaceRegister
    \/ \E k \in 1..MaxPending : DeleteUserAuth(k) /\ BoundedRaceRegister
    \/ \E k \in 1..MaxPending, ms \in 0..MaxMs : DeleteUserFind(k, ms) /\ BoundedRaceRegister
    \/ \E k \in 1..MaxPending : DeleteUserSave(k) /\ BoundedRaceRegister
    \/ \E k \in 1..MaxPending : DeleteUserLog(k) /\ BoundedRaceRegister

SpecRaceRegister == InitRaceRegister /\ [][NextRaceRegister]_vars


(***************************************************************************)
(* The guards, applied to requests of accounts of every role.              *)
(***************************************************************************)
\* the permissions asked for: those of the table, one of no role, and the wildcard itself
PermissionInputs ==
    rolePermissions["instructor"] \cup rolePermissions["student"] \cup {"user:delete", "*"}

\* the roles a client's state may hold: none, those of the table, one without a mapping, and
\* one that names a property of Object.prototype
ClientRoles == {"", "admin", "instructor", "student", "guest", "constructor"}

\* the permissions the requests ask for: one of every role, one of the instructor, one of
\* no role, and the wildcard
AskedPermissions == {"course:read", "course:create", "user:delete", "*"}

\* the bodies of POST /auth/register: an address and a role, "" for a body without one
RoleBodies == {<<(<<"a">>), "">>, <<(<<"a">>), "instructor">>, <<(<<"b">>), "admin">>}

\* the bounds of every step
BoundedGuards == Within(MaxUsers, MaxAudit, MaxRandom) /\ Pending(MaxPending)

NextGuards ==
    \/ \E b \in RoleBodies : Register(b[1], StrongPw, StrongPw, b[2]) /\ BoundedGuards
    \/ \E u \in 0..MaxUsers, roles \in {{"admin"}, {"student", "instructor"}, {}} :
          RequireRole(u, roles) /\ BoundedGuards
    \/ \E u \in 0..MaxUsers, p \in AskedPermissions : RequirePermission(u, p) /\ BoundedGuards
    \/ \E u \in 0..MaxUsers, roles \in {{"admin", "instructor"}}, hasId \in BOOLEAN, owner \in 0..MaxUsers :
          /\ \/ RequireOwnershipOrRole(u, roles, hasId, Resource(owner))
             \/ RequireOwnershipOrRole(u, roles, hasId, NoResource)
          /\ BoundedGuards
    \/ \E role \in ClientRoles, p \in AskedPermissions : ClientHasPermission(role, p) /\ BoundedGuards
    \/ \E k \in 1..MaxPending : RegisterSave(k) /\ BoundedGuards
    \/ \E k \in 1..MaxPending : RegisterLog(k) /\ BoundedGuards
    \/ \E k \in 1..MaxPending : RegisterSend(k) /\ BoundedGuards
    \/ \E k \in 1..MaxPending : CreateLogSettle(k) /\ BoundedGuards
    \/ \E k \in 1..MaxPending : CreateLogCrash(k) /\ BoundedGuards

SpecGuards == Init /\ [][NextGuards]_vars


(***************************************************************************)
(* The audit write of a security decision and the response it belongs to.  *)
(***************************************************************************)
\* the bounds of every step
BoundedAuditOrder == Within(MaxUsers, MaxAuditOrder, MaxRandom) /\ Pending(MaxPending)

NextAuditOrder ==
    \/ \E e \in {<<"a">>, <<"c">>}, p \in Passwords : Login(e, p) /\ BoundedAuditOrder
    \/ \E u \in 0..MaxUsers, roles \in {{"admin"}, {"admin", "instructor"}} :
          RequireRole(u, roles) /\ BoundedAuditOrder
    \/ \E u \in 0..MaxUsers, p \in {"course:read", "course:create", "user:delete"} :
          RequirePermission(u, p) /\ BoundedAuditOrder
    \/ \E k \in 1..MaxPending : LoginCompare(k) /\ BoundedAuditOrder
    \/ \E k \in 1..MaxPending : LoginIncAttempts(k) /\ BoundedAuditOrder
    \/ \E k \in 1..MaxPending : LoginFailLog(k) /\ BoundedAuditOrder
    \/ \E k \in 1..MaxPending : LoginResetAttempts(k) /\ BoundedAuditOrder
    \/ \E k \in 1..MaxPending : LoginSave(k) /\ BoundedAuditOrder
    \/ \E k \in 1..MaxPending : LoginLog(k) /\ BoundedAuditOrder
    \/ \E k \in 1..MaxPending : CreateLogSettle(k) /\ BoundedAuditOrder
    \/ \E k \in 1..MaxPending : CreateLogCrash(k) /\ BoundedAuditOrder

SpecAuditOrder == InitTwoAccounts /\ [][NextAuditOrder]_vars


(***************************************************************************)
(* Email verification, next to the admin's update of an account.           *)
(***************************************************************************)
\* bodies of PUT /users/:id: one with a key outside the validated fields, one without
VerifiedUpdates ==
    {[email |-> <<>>, role |-> "", isActive |-> "", isEmailVerified |-> "bool:false"],
     UpdateBody(<<>>, "instructor", "")}

\* the bounds of every step
BoundedVerify == Within(MaxUsers, MaxAuditVerify, MaxRandom) /\ Pending(MaxPending)

NextVerify ==
    \/ \E t \in TokenInputs : VerifyEmail(t) /\ BoundedVerify
    \/ \E i \in 1..MaxUsers, upd \in VerifiedUpdates :
          UpdateUser(AdminToken, HexId(i), upd) /\ BoundedVerify
    \/ \E k \in 1..MaxPending : VerifyEmailSave(k) /\ BoundedVerify
    \/ \E k \in 1..MaxPending : VerifyEmailLog(k) /\ BoundedVerify
    \/ \E k \in 1..MaxPending : UpdateUserAuth(k) /\ BoundedVerify
    \/ \E k \in 1..MaxPending : UpdateUserFind(k) /\ BoundedVerify
    \/ \E k \in 1..MaxPending : UpdateUserSave(k) /\ BoundedVerify
    \/ \E k \in 1..MaxPending : UpdateUserLog(k) /\ BoundedVerify
    \/ \E k \in 1..MaxPending : UpdateUserReply(k) /\ BoundedVerify
    \/ \E k \in 1..MaxPending : CreateLogSettle(k) /\ BoundedVerify
    \/ \E k \in 1..MaxPending : CreateLogCrash(k) /\ BoundedVerify

SpecVerify == InitTwoAccounts /\ [][NextVerify]_vars


(***************************************************************************)
(* Routes behind authenticateToken and requireRole('admin'), called with every *)
(* kind of token while other requests are in flight and while tokens expire. *)
(***************************************************************************)
\* the bounds of every step
BoundedGuarded == Within(MaxUsers, MaxAuditGuarded, MaxRandom) /\ Pending(MaxPending)

NextGuarded ==
    \/ \E tok \in Presentable : AdminUpdateSettings(tok, [theme |-> "dark"]) /\ BoundedGuarded
    \/ \E tok \in Presentable : DeleteUser(tok, <<"a", "1">>) /\ BoundedGuarded
    \/ \E k \in 1..MaxPending : AdminUpdateSettingsAuth(k) /\ BoundedGuarded
    \/ \E k \in 1..MaxPending : AdminUpdateSettingsLog(k) /\ BoundedGuarded
    \/ \E k \in 1..MaxPending : DeleteUserAuth(k) /\ BoundedGuarded
    \/ \E k \in 1..MaxPending, ms \in 0..MaxMs : DeleteUserFind(k, ms) /\ BoundedGuarded
    \/ \E k \in 1..MaxPending : DeleteUserSave(k) /\ BoundedGuarded
    \/ \E k \in 1..MaxPending : DeleteUserLog(k) /\ BoundedGuarded
    \/ \E k \in 1..MaxPending : CreateLogSettle(k) /\ BoundedGuarded
    \/ \E k \in 1..MaxPending : CreateLogCrash(k) /\ BoundedGuarded
    \/ Tick

SpecGuarded == InitTwoAccounts /\ [][NextGuarded]_vars

(***************************************************************************)
(* The client's reducer under every sequence of actions.                   *)
(***************************************************************************)
\* the user objects of the server's responses
ClientUsers == {[id |-> 1, role |-> "student"], [id |-> 2, role |-> "admin"]}

\* the tokens of the server's responses and of localStorage
ClientTokens == {generateToken(1, 0), generateToken(2, 0)}

\* the messages of AUTH_FAILURE; null when there was no stored token
ClientErrors ==
    {Null, [message |-> "Session expired"], [message |-> "Login failed"],
     [message |-> "Registration failed"]}

\* the payloads of updateUser(userData)
UserData ==
    {[firstName |-> "Al"], [lastName |-> "Doe"], [role |-> "admin"], [isEmailVerified |-> TRUE]}

\* the actions the AuthProvider dispatches
KnownActions ==
    {ReducerAction("AUTH_START", Null), ReducerAction("LOGOUT", Null),
     ReducerAction("CLEAR_ERROR", Null)}
    \cup {ReducerAction("AUTH_SUCCESS", [user |-> u, token |-> t]) :
             u \in ClientUsers, t \in ClientTokens}
    \cup {ReducerAction("AUTH_FAILURE", e) : e \in ClientErrors}
    \cup {ReducerAction("UPDATE_USER", d) : d \in UserData}

\* actions of a type the reducer has no case for
UnknownActions ==
    {ReducerAction("REFRESH_TOKEN", Null),
     ReducerAction("auth_success", [user |-> Null, token |-> Null])}

InitClient ==
    /\ users = <<>>
    /\ auditLog = <<>>
    /\ jwts = {}
    /\ rand = 0
    /\ now = 0
    /\ resp = NoResponse
    /\ consecFails = <<>>
    /\ registered = {}
    /\ spentResets = {}
    /\ inflight = <<>>
    /\ auth \in {initialState(t) : t \in ClientTokens \cup {Null}}

NextClient ==
    \/ \E a \in KnownActions : Dispatch(a)
    \/ \E a \in UnknownActions : Dispatch(a)

SpecClient == InitClient /\ [][NextClient]_vars

(***************************************************************************)
(* Properties.  A request is judged by what the store held when the        *)
(* request read it: the action in which a route reads what decides is the  *)
(* one that is judged, the later actions are its writes and its response.  *)
(***************************************************************************)
\* the account a Login for this address loads, 0 when there is none
LoginAccount(e) == FindOneByEmail(NormalizeEmail(e))

\* a step in which a request of route op arrives: it is answered at once, or suspended at
\* its first await
FirstStep(op) ==
    \/ resp' # resp /\ resp'.op = op
    \/ /\ Len(inflight') = Len(inflight) + 1
       /\ inflight'[Len(inflight')].op = op

\* the request at position k goes on to the call pc, and every other request in flight
\* stays where it is
GoesOn(k, pc) ==
    /\ inflight' = [inflight EXCEPT ![k] = inflight'[k]]
    /\ inflight'[k].op = inflight[k].op
    /\ inflight'[k].uid = inflight[k].uid
    /\ inflight'[k].pc = pc
    /\ inflight[k].pc # pc
\* C1: the wrong-password login that is the fifth in a row on an account leaves lockUntil
\* in the future and is answered 401 INVALID_CREDENTIALS; every login that finds the
\* account with lockUntil in the future is answered 423 ACCOUNT_LOCKED, whatever the
\* password, and changes nothing
C1_LockoutAfterFiveFailures ==
    [][/\ \A k \in 1..MaxInflight :
            /\ LoginIncAttempts(k) =>
                  (consecFails'[inflight[k].id] = MaxLoginAttempts =>
                      /\ users'[inflight[k].id].lockUntil > now'
                      /\ inflight'[k].pc = "fail-log")
            /\ LoginFailLog(k) =>
                  /\ resp'.status = 401
                  /\ resp'.code = "INVALID_CREDENTIALS"
                  /\ resp'.token = NoToken
       /\ \A e \in RawEmails, p \in Passwords :
            (LoginAccount(e) # 0 /\ users[LoginAccount(e)].lockUntil > now /\ Login(e, p)) =>
                /\ resp'.status = 423
                /\ resp'.code = "ACCOUNT_LOCKED"
                /\ resp'.token = NoToken
                /\ inflight' = inflight
                /\ users' = users]_vars

\* a sixth login, with the correct password, was answered 423 while the account is locked
C1_Witness ==
    /\ resp.op = "login"
    /\ resp.code = "ACCOUNT_LOCKED"
    /\ resp.uid \in UserIds
    /\ consecFails[resp.uid] = MaxLoginAttempts
    /\ users[resp.uid].lockUntil > now
    /\ users[resp.uid].isActive
    /\ comparePassword(users[resp.uid], resp.arg[1])

\* C2: a login with the correct password that finds the account active, not locked and
\* with fewer than five failed attempts goes on to compare the password, is let through,
\* leaves the stored counter at 0 (it resets a counter it found above 0) and is answered
\* 200 with a token for the account
C2_CorrectPasswordResetsCounter ==
    [][/\ \A e \in RawEmails, p \in Passwords :
            LET id == LoginAccount(e)
            IN  (/\ id # 0
                 /\ users[id].isActive
                 /\ users[id].lockUntil <= now
                 /\ consecFails[id] < MaxLoginAttempts
                 /\ users[id].password = HashPassword(p)
                 /\ Login(e, p)) =>
                    /\ Len(inflight') = Len(inflight) + 1
                    /\ inflight'[Len(inflight')].op = "login"
                    /\ inflight'[Len(inflight')].id = id
                    /\ inflight'[Len(inflight')].pc = "compare"
                    /\ inflight'[Len(inflight')].in.user = users[id]
       /\ \A k \in 1..MaxInflight :
            /\ (LoginCompare(k) /\ comparePassword(inflight[k].in.user, inflight[k].in.password)) =>
                  IF inflight[k].in.user.loginAttempts = 0
                  THEN inflight'[k].pc = "save"
                  ELSE inflight'[k].pc = "reset"
            /\ LoginResetAttempts(k) =>
                  /\ users'[inflight[k].id].loginAttempts = 0
                  /\ inflight'[k].pc = "save"
            /\ LoginSave(k) => inflight'[k].pc = "log"
            /\ LoginLog(k) =>
                  /\ resp'.status = 200
                  /\ resp'.token # NoToken
                  /\ resp'.token.userId = inflight[k].id
                  /\ resp'.uid = inflight[k].id]_vars

\* a successful login that followed a failed one: the counter is back at 0
C2_Witness ==
    /\ resp.op = "login"
    /\ resp.status = 200
    /\ resp.arg[2] > 0
    /\ Len(auditLog) >= 2
    /\ auditLog[Len(auditLog)].status = "SUCCESS"
    /\ auditLog[Len(auditLog) - 1].action = "LOGIN"
    /\ auditLog[Len(auditLog) - 1].status = "FAILURE"
    /\ auditLog[Len(auditLog) - 1].user = resp.uid
    /\ users[resp.uid].loginAttempts = 0

\* the request at position k passes the guards of its route
GuardedRequest(k) ==
    \/ GetUsersAuth(k)
    \/ GetUserByIdAuth(k)
    \/ GetUserActivityAuth(k)
    \/ UpdateUserAuth(k)
    \/ DeleteUserAuth(k)
    \/ AdminReadAuth(k)
    \/ AdminUpdateSettingsAuth(k)
    \/ AdminExportAuth(k)

\* the audit writes of denials that have not settled
PendingLogs(seq) == {n \in DOMAIN seq : seq[n].op = "createLog"}

\* C3: every request answered 403 by a guard hands one event to the recorder, and the
\* recorder adds that event to the log, with action UNAUTHORIZED_ACCESS, severity HIGH and
\* status FAILURE
C3_DenialIsAudited ==
    [][\A k \in 1..MaxInflight :
          /\ (resp'.status = 403 /\ GuardedRequest(k)) =>
                /\ Cardinality(PendingLogs(inflight')) = Cardinality(PendingLogs(inflight)) + 1
                /\ inflight'[Len(inflight')].op = "createLog"
          /\ CreateLogSettle(k) =>
                /\ Len(auditLog') = Len(auditLog) + 1
                /\ auditLog'[Len(auditLog')].action = "UNAUTHORIZED_ACCESS"
                /\ auditLog'[Len(auditLog')].severity = "HIGH"
                /\ auditLog'[Len(auditLog')].status = "FAILURE"]_vars


\* the account that holds the lower-cased form of an address, 0 when none does
HolderOf(e) == FindOneByEmail([pre |-> <<>>, addr |-> ToLower(e)])

\* C4 as stated: once an email was registered, every later Register with it is answered
\* 400 USER_EXISTS and creates no account
C4_RegisteredEmailRejectedForever ==
    [][FirstStep("register") =>
          \A e \in RawEmails, r \in BodyRoles :
              ([pre |-> <<>>, addr |-> ToLower(e)] \in registered
               /\ Register(e, StrongPw, StrongPw, r)) =>
                  /\ resp'.status = 400
                  /\ resp'.code = "USER_EXISTS"
                  /\ inflight' = inflight
                  /\ users' = users]_vars

\* C4, amended: a Register with an email that an account holds (in any letter case) when
\* the request looks it up is answered 400 USER_EXISTS, whatever the other fields: no
\* account is created and nothing is recorded
C4_HeldEmailRejected ==
    [][FirstStep("register") =>
          \A e \in RawEmails, r \in BodyRoles :
              (HolderOf(e) # 0 /\ Register(e, StrongPw, StrongPw, r)) =>
                  /\ resp'.status = 400
                  /\ resp'.code = "USER_EXISTS"
                  /\ inflight' = inflight
                  /\ users' = users
                  /\ auditLog' = auditLog]_vars

\* a Register in another letter case was answered USER_EXISTS
C4_Witness ==
    /\ resp.op = "register"
    /\ resp.code = "USER_EXISTS"
    /\ HolderOf(resp.arg) # 0
    /\ resp.arg # users[HolderOf(resp.arg)].email.addr
    /\ Len(users) >= 2
\* C5: a ResetPassword that looks up a token that a successful ResetPassword has consumed
\* is answered 400 INVALID_TOKEN: no reset is started for it and no account is changed
C5_ResetTokenSingleUse ==
    [][\A k \in 1..MaxInflight :
          (ResetPasswordFind(k) /\ inflight[k].in.token \in spentResets) =>
              /\ resp'.status = 400
              /\ resp'.code = "INVALID_TOKEN"
              /\ inflight' = RemoveAt(inflight, k)
              /\ users' = users]_vars

\* a consumed token was presented again, within the hour of its issue, and refused
C5_Witness ==
    /\ resp.op = "reset-password"
    /\ resp.code = "INVALID_TOKEN"
    /\ resp.arg[1] \in spentResets
    /\ now = 0

\* what the client of a response sees
Visible(r) == <<r.status, r.code, r.token>>

\* C6: whatever state a forgot-password request finds and whatever the Notifier does, its
\* answer is the one that an email of no account gets: 200 with the one message; so the
\* answers to an email of an account and to an email of no account are identical
C6_ForgotPasswordIndistinguishable ==
    resp.op = "forgot-password" => Visible(resp) = <<200, "IF_EXISTS_LINK_SENT", NoToken>>

\* C7: a token issued for an account verifies to that account's id until its expiry has
\* elapsed, and from then on is refused with 401 TOKEN_EXPIRED
C7_TokenRoundTrip ==
    /\ [](resp.token # NoToken =>
            IF now < resp.token.iat + JwtExpiresInMin
            THEN JwtVerify(resp.token, now) = [err |-> "", userId |-> resp.uid]
            ELSE JwtVerify(resp.token, now).err = "TokenExpiredError")
    /\ [][\A tok \in jwts :
            GetMe(tok) =>
               IF now < tok.iat + JwtExpiresInMin
               THEN /\ Len(inflight') = Len(inflight) + 1
                    /\ inflight'[Len(inflight')].op = "me"
                    /\ inflight'[Len(inflight')].uid = tok.userId
               ELSE /\ resp'.status = 401
                    /\ resp'.code = "TOKEN_EXPIRED"
                    /\ inflight' = inflight]_vars

\* a token that was accepted earlier is refused as expired
C7_Witness ==
    /\ resp.op = "me"
    /\ resp.code = "TOKEN_EXPIRED"
    /\ resp.arg[1] \in jwts
    /\ now >= resp.arg[1].iat + JwtExpiresInMin
    /\ users[resp.arg[1].userId].isActive

\* C8: a DELETE /users/:id by an admin whose :id denotes the admin's own account is
\* answered 400 once the guards have let it through: no deletion is started, the accounts
\* and the log stay as they are
C8_AdminCannotDeleteSelf ==
    [][\A k \in 1..MaxInflight :
          DeleteUserAuth(k) =>
             LET r == inflight[k]
                 a == authenticateTokenUser(r.uid)
             IN  (a.ok /\ users[r.uid].role = "admin" /\ FindById(r.in.idParam) = r.uid) =>
                    /\ resp'.status = 400
                    /\ inflight' = RemoveAt(inflight, k)
                    /\ users' = users
                    /\ auditLog' = auditLog]_vars

\* C9: a protected request with an issued token of an account that authenticateToken finds
\* inactive or locked when it has loaded the account is answered 401: its handler does not
\* run and nothing is written
C9_RevocationIsImmediate ==
    [][\A k \in 1..MaxInflight :
          (/\ GetMeAuth(k) \/ LogoutAuth(k)
           /\ inflight[k].in.tok \in jwts
           /\ \/ ~users[inflight[k].uid].isActive
              \/ users[inflight[k].uid].lockUntil > now) =>
             /\ resp'.status = 401
             /\ resp'.code \in {"ACCOUNT_DEACTIVATED", "ACCOUNT_LOCKED"}
             /\ inflight' = RemoveAt(inflight, k)
             /\ users' = users
             /\ auditLog' = auditLog]_vars

\* the unexpired token of a student the admin has deactivated was refused
C9_Witness ==
    /\ resp.op \in {"me", "logout"}
    /\ resp.status = 401
    /\ resp.code = "ACCOUNT_DEACTIVATED"
    /\ resp.arg[1] \in jwts
    /\ now < resp.arg[1].exp
    /\ resp.uid = resp.arg[1].userId
    /\ ~users[resp.uid].isActive
    /\ \E i \in DOMAIN auditLog : auditLog[i].action = "USER_UPDATE"


\* C10: no step removes or changes an audit event: the log before a step is a prefix of
\* the log after it
C10_AuditLogAppendOnly ==
    [][/\ Len(auditLog') >= Len(auditLog)
       /\ SubSeq(auditLog', 1, Len(auditLog)) = auditLog]_vars

\* the log has grown to its bound and the two registrations are still the events they were
C10_Witness ==
    /\ Len(auditLog) = MaxAuditSession
    /\ auditLog[2].action = "REGISTER"
    /\ auditLog[1].action = "REGISTER"
    /\ auditLog[1].user = 1
    /\ auditLog[Len(auditLog)].action # "REGISTER"

\* the step sends the response of a login
LoginAnswered ==
    \/ \E e \in RawEmails \cup {<<"c">>}, p \in Passwords : Login(e, p) /\ inflight' = inflight
    \/ \E k \in 1..MaxInflight : LoginFailLog(k) \/ LoginLog(k)

\* C11: every Login that ends in a success or in an expected failure adds exactly one
\* LOGIN event to the audit log, with the step that answers
C11_EveryLoginIsAudited ==
    [][(resp'.op = "login" /\ LoginAnswered) =>
          /\ Len(auditLog') = Len(auditLog) + 1
          /\ auditLog'[Len(auditLog')].action = "LOGIN"]_vars

\* the accounts that were not soft-deleted
NonDeleted == {i \in UserIds : users[i].email.pre = <<>>}

\* C12: no two accounts that are not deleted have the same email, compared without regard
\* to letter case, whatever the order in which registrations (also concurrent ones for one
\* email), admin updates and deletions take their steps
C12_EmailUnique ==
    \A i \in NonDeleted, j \in NonDeleted :
        i # j => ToLower(users[i].email.addr) # ToLower(users[j].email.addr)

\* of two registrations that both found the email free, the second to save was refused
C12_Witness ==
    /\ resp.op = "register"
    /\ resp.code = "REGISTRATION_ERROR"
    /\ \E i \in NonDeleted : users[i].email.addr = ToLower(resp.arg)
    /\ Cardinality(NonDeleted) >= 2
C15_RoleCheck ==
    [][\A u \in 0..MaxUsers, roles \in SUBSET Roles :
          (resp'.op = "require-role" /\ RequireRole(u, roles)) =>
             /\ users' = users
             /\ auditLog' = auditLog
             /\ resp'.status # 403 => inflight' = inflight
             /\ IF u = 0
                THEN resp'.status = 401 /\ resp'.code = "AUTH_REQUIRED"
                ELSE IF users[u].role \in roles
                THEN resp'.code = "NEXT"
                ELSE resp'.status = 403 /\ resp'.code = "INSUFFICIENT_PERMISSIONS"]_vars

\* an admin was stopped by an allow-list that does not name admin
C15_Witness ==
    /\ resp.op = "require-role"
    /\ resp.status = 403
    /\ resp.uid \in UserIds
    /\ users[resp.uid].role = "admin"
    /\ resp.arg[1] = {"student", "instructor"}
\* the permissions the claim gives a student
StudentPermissions ==
    {"course:read", "assignment:read", "grade:read", "profile:read", "profile:update"}

\* C16: a request that requires permission p is let through exactly when the permission
\* list of the account's role holds p or the wildcard; the client's hasPermission answers
\* the same: yes to an admin for every permission, no to a role without a mapping, and to
\* a student yes for exactly the five student permissions; a role that names a property of
\* Object.prototype is not among the roles an account can hold, and is never answered yes
C16_PermissionCheck ==
    /\ [][\A u \in 1..MaxUsers, p \in AskedPermissions :
            (resp'.op = "require-permission" /\ RequirePermission(u, p)) =>
               LET list == rolePermissions[users[u].role]
               IN  IF p \in list \/ "*" \in list
                   THEN resp'.code = "NEXT"
                   ELSE resp'.status = 403 /\ resp'.code = "INSUFFICIENT_PERMISSIONS"]_vars
    /\ [](\A p \in PermissionInputs :
            /\ hasPermission("admin", p) = "true"
            /\ hasPermission("guest", p) = "false"
            /\ hasPermission("", p) = "false"
            /\ hasPermission("student", p) = "true" <=> p \in StudentPermissions
            /\ hasPermission("student", p) \in {"true", "false"}
            /\ hasPermission("instructor", p) = "true" <=> p \in rolePermissions["instructor"]
            /\ hasPermission("instructor", p) \in {"true", "false"}
            /\ hasPermission("constructor", p) # "true")

\* an admin was let through for a permission that no list names
C16_Witness ==
    /\ resp.op = "require-permission"
    /\ resp.code = "NEXT"
    /\ resp.uid \in UserIds
    /\ users[resp.uid].role = "admin"
    /\ resp.arg[1] = "user:delete"


\* C17: requireOwnershipOrRole lets a requester whose role is not privileged through only
\* when the resource's owner is the requester
C17_OwnershipCheck ==
    [][\A u \in 1..MaxUsers, roles \in {{"admin"}, {"admin", "instructor"}},
          hasId \in BOOLEAN, res \in {NoResource} \cup {Resource(o) : o \in 0..MaxUsers} :
          (resp'.op = "require-ownership" /\ RequireOwnershipOrRole(u, roles, hasId, res)) =>
             ((users[u].role \notin roles /\ resp'.code = "NEXT") =>
                 res.present /\ res.owner = u)]_vars
\* a request to a route behind authenticateToken and requireRole('admin') arrives
AdminOnlyRequest(tok) ==
    \/ \E s \in {Null, [theme |-> "dark"]} : AdminUpdateSettings(tok, s)
    \/ \E id \in IdParams : DeleteUser(tok, id)

\* the request at position k has its account loaded and meets the checks of
\* authenticateToken and requireRole('admin')
AdminOnlyGuards(k) == AdminUpdateSettingsAuth(k) \/ DeleteUserAuth(k)

\* the requests in flight that a client waits for, in their order
AwaitedSeq(seq) == SelectSeq(seq, LAMBDA r : r.op # "createLog")

\* C18: a request to a guarded route without a token, or with one that is forged or
\* expired, is answered 401 and neither the role guard nor the handler acts; the handler
\* runs only for a request whose account authenticateToken found to exist, to be active
\* and not locked and requireRole found to be an admin: every other request is answered
\* 401 by authenticateToken or 403 by requireRole and writes nothing; and every request
\* ends in one response: a request leaves the requests in flight only with the step that
\* answers it
C18_GuardStateMachine ==
    /\ [][\A tok \in Presentable :
            AdminOnlyRequest(tok) =>
               IF tok = NoToken \/ tok.sig # "JWT_SECRET" \/ now >= tok.exp
               THEN /\ resp'.status = 401
                    /\ resp'.code \in {"TOKEN_REQUIRED", "INVALID_TOKEN", "TOKEN_EXPIRED"}
                    /\ inflight' = inflight
                    /\ users' = users
                    /\ auditLog' = auditLog
               ELSE /\ Len(inflight') = Len(inflight) + 1
                    /\ inflight'[Len(inflight')].pc = "auth"
                    /\ inflight'[Len(inflight')].uid = tok.userId
                    /\ resp' = resp]_vars
    /\ [][\A k \in 1..MaxInflight :
            AdminOnlyGuards(k) =>
               LET uid == inflight[k].uid
                   authenticated ==
                       /\ uid \in UserIds
                       /\ users[uid].isActive
                       /\ users[uid].lockUntil <= now
               IN  /\ ~authenticated =>
                         /\ resp'.status = 401
                         /\ inflight' = RemoveAt(inflight, k)
                   /\ (authenticated /\ users[uid].role # "admin") =>
                         /\ resp'.status = 403
                         /\ AwaitedSeq(inflight') = AwaitedSeq(RemoveAt(inflight, k))
                   /\ (~authenticated \/ users[uid].role # "admin") =>
                         /\ resp'.op = inflight[k].op
                         /\ users' = users
                         /\ auditLog' = auditLog]_vars
    /\ [][Len(AwaitedSeq(inflight')) < Len(AwaitedSeq(inflight)) =>
            \E k \in DOMAIN inflight :
               /\ inflight[k].op # "createLog"
               /\ AwaitedSeq(inflight') = AwaitedSeq(RemoveAt(inflight, k))
               /\ resp'.op = inflight[k].op
               /\ resp'.status # 0]_vars

\* C19: a step that changes the role of an existing account is the save of a PUT
\* /users/:id; a PUT /users/:id goes on to its handler only for a caller that
\* authenticateToken and requireRole('admin') find to be an active, unlocked admin; and a
\* PUT /users/profile, a role in its body included, changes no role
C19_RoleChangeAdminOnly ==
    /\ [][(\E id \in UserIds : users'[id].role # users[id].role) =>
            \E k \in 1..MaxInflight : UpdateUserSave(k)]_vars
    /\ [][\A k \in 1..MaxInflight :
            (UpdateUserAuth(k) /\ GoesOn(k, "find")) =>
               LET caller == inflight[k].uid
               IN  /\ caller \in UserIds
                   /\ inflight[k].in.tok \in jwts
                   /\ inflight[k].in.tok.userId = caller
                   /\ users[caller].role = "admin"
                   /\ users[caller].isActive
                   /\ users[caller].lockUntil <= now]_vars
    /\ [][\A k \in 1..MaxInflight :
            UpdateProfileUpdate(k) => \A id \in UserIds : users'[id].role = users[id].role]_vars

\* a student's PUT /users/profile with role admin in its body was answered 200 and the
\* student is a student still
C19_Witness ==
    /\ resp.op = "users-profile"
    /\ resp.status = 200
    /\ <<"role", "admin">> \in resp.arg[1]
    /\ users[resp.uid].role = "student"


\* C20: Login answers an account it finds locked ACCOUNT_LOCKED whatever its active flag
\* and the password sent, answers an account it finds deactivated and not locked
\* ACCOUNT_DEACTIVATED whatever the password sent, and in neither case goes on to a write:
\* the failed-login counter is not changed
C20_LoginCheckOrder ==
    [][\A e \in RawEmails \cup {<<"c">>}, p \in Passwords :
          (resp'.op = "login" /\ Login(e, p)) =>
             LET id == LoginAccount(e)
             IN  id # 0 =>
                   /\ users[id].lockUntil > now =>
                         /\ resp'.status = 423
                         /\ resp'.code = "ACCOUNT_LOCKED"
                         /\ inflight' = inflight
                         /\ users' = users
                   /\ (users[id].lockUntil <= now /\ ~users[id].isActive) =>
                         /\ resp'.status = 401
                         /\ resp'.code = "ACCOUNT_DEACTIVATED"
                         /\ inflight' = inflight
                         /\ users' = users]_vars

\* a locked account that was also deactivated is answered ACCOUNT_LOCKED for the correct
\* password
C20_Witness ==
    /\ resp.op = "login"
    /\ resp.code = "ACCOUNT_LOCKED"
    /\ resp.uid \in UserIds
    /\ ~users[resp.uid].isActive
    /\ users[resp.uid].lockUntil > now
    /\ users[resp.uid].password = HashPassword(resp.arg[1])

\* C21: the step that sends the 403 of a guard has the denial's event in the log and
\* leaves no audit write pending, and the step that sends the response of a login has
\* added the login's event
C21_AuditBeforeResponse ==
    /\ [][\A u \in 1..MaxUsers :
            (/\ resp'.status = 403
             /\ \/ \E roles \in SUBSET Roles : RequireRole(u, roles)
                \/ \E p \in AskedPermissions : RequirePermission(u, p)) =>
                /\ inflight' = inflight
                /\ Len(auditLog') = Len(auditLog) + 1]_vars
    /\ [][\A k \in 1..MaxInflight :
            (LoginFailLog(k) \/ LoginLog(k)) => Len(auditLog') = Len(auditLog) + 1]_vars
\* C22: a ResetPassword that passed validation goes on to its writes exactly when its
\* lookup finds an account that holds the supplied token with an expiry later than the
\* time of the request, the expiry being one hour after the ForgotPassword that made the
\* token; it then sets that account's password, clears its token and is answered 200;
\* otherwise it is answered 400 INVALID_TOKEN, changes no account and adds no audit event
C22_ResetNeedsUnexpiredToken ==
    /\ [][\A k \in 1..MaxInflight :
            ForgotPasswordSave(k) =>
               \E t \in 0..now :
                  /\ inflight[k].in.doc.passwordResetExpires = t + ResetExpiresMin
                  /\ users'[inflight[k].id].passwordResetExpires = t + ResetExpiresMin]_vars
    /\ [][\A k \in 1..MaxInflight :
            ResetPasswordFind(k) =>
               LET t == inflight[k].in.token
                   holders == {i \in UserIds : /\ users[i].passwordResetToken = t
                                               /\ users[i].passwordResetExpires
                                                     > inflight[k].in.sent}
               IN  /\ users' = users
                   /\ auditLog' = auditLog
                   /\ IF holders # {}
                      THEN /\ GoesOn(k, "save")
                           /\ inflight'[k].id \in holders
                      ELSE /\ resp'.status = 400
                           /\ resp'.code = "INVALID_TOKEN"
                           /\ inflight' = RemoveAt(inflight, k)]_vars
    /\ [][\A k \in 1..MaxInflight :
            /\ ResetPasswordSave(k) =>
                  LET id == inflight[k].id
                  IN  /\ users'[id].password = HashPassword(inflight[k].in.password)
                      /\ users'[id].passwordResetToken = 0
                      /\ \A j \in UserIds \ {id} : users'[j] = users[j]
            /\ ResetPasswordLog(k) =>
                  /\ resp'.status = 200
                  /\ resp'.uid = inflight[k].id]_vars


\* C23: a VerifyEmail with a token that an account holds marks that account verified and
\* clears the token, so that no account holds it any more, and is answered 200; a
\* VerifyEmail with a token that no account holds is answered 400 INVALID_TOKEN and
\* changes no account; and no step takes the verified flag of an account from true back
\* to false
C23_VerificationSingleUse ==
    /\ [][FirstStep("verify-email") =>
            \A t \in TokenInputs \ {0} :
                VerifyEmail(t) =>
                   IF \E i \in UserIds : users[i].emailVerificationToken = t
                   THEN /\ Len(inflight') = Len(inflight) + 1
                        /\ users[inflight'[Len(inflight')].id].emailVerificationToken = t
                   ELSE /\ resp'.status = 400
                        /\ resp'.code = "INVALID_TOKEN"
                        /\ inflight' = inflight
                        /\ users' = users]_vars
    /\ [][\A k \in 1..MaxInflight :
            /\ VerifyEmailSave(k) =>
                  /\ users'[inflight[k].id].isEmailVerified
                  /\ \A j \in UserIds : users'[j].emailVerificationToken # inflight[k].in.token
            /\ VerifyEmailLog(k) => resp'.status = 200]_vars
    /\ [][\A i \in UserIds : users[i].isEmailVerified => users'[i].isEmailVerified]_vars

\* C24: every ForgotPassword for the email of an account adds exactly one PASSWORD_RESET
\* event with detail 'requested' to the audit log with the step that answers it, when the
\* email was sent (200) and when the send failed after the token was stored (500)
C24_ForgotPasswordIsAudited ==
    [][\A k \in 1..MaxInflight :
          (ForgotPasswordLog(k) \/ ForgotPasswordSend(k, FALSE)) =>
             /\ Len(auditLog') = Len(auditLog) + 1
             /\ auditLog'[Len(auditLog')].action = "PASSWORD_RESET"
             /\ auditLog'[Len(auditLog')].detail = "requested"
             /\ auditLog'[Len(auditLog')].user = inflight[k].id]_vars
\* C25: the save of a DELETE /users/:id removes no record: the target keeps its id, is
\* inactive and holds a placeholder email made from the email it was loaded with, that no
\* other account holds; when the target held the loaded email until then, no account holds
\* it any more, so it can be registered again; no step removes a record, and every audit
\* event names accounts that exist
C25_SoftDelete ==
    /\ [][\A k \in 1..MaxInflight :
            (DeleteUserSave(k) /\ users' # users) =>
               LET i == inflight[k].id
                   loaded == inflight[k].in.snap.email
               IN  /\ Len(users') = Len(users)
                   /\ ~users'[i].isActive
                   /\ users'[i].email # loaded
                   /\ users'[i].email.addr = loaded.addr
                   /\ Len(users'[i].email.pre) = Len(loaded.pre) + 1
                   /\ \A j \in UserIds \ {i} :
                         /\ users'[j] = users[j]
                         /\ users'[j].email # users'[i].email
                   /\ users[i].email = loaded => \A j \in UserIds : users'[j].email # loaded]_vars
    /\ [][\A k \in 1..MaxInflight :
            DeleteUserLog(k) => (resp'.status = 200 /\ users' = users)]_vars
    /\ [][Len(users') >= Len(users)]_vars
    /\ [](\A i \in DOMAIN auditLog :
            auditLog[i].user \in UserIds /\ auditLog[i].resourceId \in UserIds)

\* the email of a deleted account was registered again: two records have the address, the
\* deleted one under its placeholder, and the USER_DELETE event names the deleted record
C25_Witness ==
    \E i \in UserIds, j \in UserIds :
        /\ users[i].email.pre # <<>>
        /\ ~users[i].isActive
        /\ users[j].email.pre = <<>>
        /\ users[j].email.addr = users[i].email.addr
        /\ i < j
        /\ \E n \in DOMAIN auditLog :
              auditLog[n].action = "USER_DELETE" /\ auditLog[n].resourceId = i
\* C26: a Logout writes no account and no token: with an accepted token of an account
\* that is active and not locked it hands one LOGOUT event of the caller to the recorder
\* and is answered 200, with a refused token it is answered 401 and records nothing;
\* authenticateToken answers every token after the Logout as before, so the token that
\* logged out is accepted until it expires or its account is deactivated or locked
C26_LogoutIsStateless ==
    /\ [][\A tok \in jwts :
            Logout(tok) =>
               /\ users' = users
               /\ jwts' = jwts
               /\ auditLog' = auditLog
               /\ IF authenticateToken(tok).ok
                  THEN /\ Len(inflight') = Len(inflight) + 1
                       /\ inflight'[Len(inflight')].op = "logout"
                       /\ inflight'[Len(inflight')].uid = tok.userId
                  ELSE /\ inflight' = inflight
                       /\ resp'.status = 401]_vars
    /\ [][\A k \in 1..MaxInflight :
            /\ LogoutAuth(k) =>
                  /\ users' = users
                  /\ jwts' = jwts
                  /\ auditLog' = auditLog
                  /\ IF authenticateTokenUser(inflight[k].uid).ok
                     THEN GoesOn(k, "log")
                     ELSE /\ inflight' = RemoveAt(inflight, k)
                          /\ resp'.status = 401
            /\ LogoutLog(k) =>
                  /\ users' = users
                  /\ jwts' = jwts
                  /\ \A t2 \in Presentable : authenticateToken(t2)' = authenticateToken(t2)
                  /\ \A u \in UserIds : authenticateTokenUser(u)' = authenticateTokenUser(u)
                  /\ resp'.status = 200
                  /\ Len(auditLog') = Len(auditLog) + 1
                  /\ auditLog'[Len(auditLog')].action = "LOGOUT"
                  /\ auditLog'[Len(auditLog')].user = inflight[k].uid]_vars
    /\ [][\A tok \in jwts :
            (/\ \E i \in DOMAIN auditLog :
                    auditLog[i].action = "LOGOUT" /\ auditLog[i].user = tok.userId
             /\ now < tok.exp
             /\ GetMe(tok)) =>
                /\ Len(inflight') = Len(inflight) + 1
                /\ inflight'[Len(inflight')].op = "me"
                /\ inflight'[Len(inflight')].uid = tok.userId]_vars
    /\ [][\A k \in 1..MaxInflight :
            (/\ GetMeAuth(k)
             /\ users[inflight[k].uid].isActive
             /\ users[inflight[k].uid].lockUntil <= now) => GoesOn(k, "find")]_vars

\* the one token of an account was accepted after the account's Logout
C26_Witness ==
    /\ resp.op = "me"
    /\ resp.status = 200
    /\ \E i \in DOMAIN auditLog : auditLog[i].action = "LOGOUT" /\ auditLog[i].user = resp.uid
    /\ Cardinality({t \in jwts : t.userId = resp.uid}) = 1
    /\ resp.arg[1].userId = resp.uid
    /\ inflight = <<>>

\* C27: a PUT /users/:id of an admin whose :id denotes the admin's own account and whose
\* isActive is false, in any form the validator accepts, is answered 400
\* CANNOT_DEACTIVATE_SELF once the account was loaded, and no save of such a request
\* takes the admin's active flag away
C27_AdminCannotDeactivateSelf ==
    [][\A k \in 1..MaxInflight :
          /\ (/\ UpdateUserFind(k)
              /\ FindById(inflight[k].in.idParam) = inflight[k].uid
              /\ inflight[k].in.upd.isActive \in {"bool:false", "str:false", "str:0", "num:0"}) =>
                 /\ Len(inflight') = Len(inflight) - 1
                 /\ resp'.status = 400
                 /\ resp'.code = "CANNOT_DEACTIVATE_SELF"
          /\ (UpdateUserSave(k) /\ inflight[k].id = inflight[k].uid) =>
                 (users[inflight[k].uid].isActive => users'[inflight[k].uid].isActive)]_vars


\* a suspended request makes its call of AuditLog.createLog
CreateLogCall(k) ==
    \/ CreateLogSettle(k)
    \/ AdminExportLog(k)
    \/ AdminUpdateSettingsLog(k)
    \/ UpdateUserLog(k)
    \/ DeleteUserLog(k)

\* C28: no event a flow hands to the recorder is refused for its action: every call of
\* createLog adds its event to the log, the DATA_EXPORT of an export and the
\* UNAUTHORIZED_ACCESS of a denial included, and every stored event's action is one of
\* the enum
C28_NoAppendRejected ==
    /\ [](\A i \in DOMAIN auditLog : auditLog[i].action \in AuditActionEnum)
    /\ [][\A k \in 1..MaxInflight :
            CreateLogCall(k) =>
               /\ Len(auditLog') = Len(auditLog) + 1
               /\ auditLog'[Len(auditLog')].action \in AuditActionEnum]_vars

\* C29: an account gets the role admin or instructor only by a PUT /users/:id of an
\* authenticated admin: the account a Register creates, whatever the role in its body, is
\* a student
C29_PrivilegedRoleOnlyByAdmin ==
    /\ [][\A k \in 1..MaxInflight :
            (RegisterSave(k) /\ Len(users') = Len(users) + 1) =>
               users'[Len(users')].role = "student"]_vars
    /\ [][\A id \in UserIds :
            (users'[id].role # users[id].role /\ users'[id].role \in {"admin", "instructor"}) =>
               \E k \in 1..MaxInflight :
                  UpdateUserSave(k) /\ inflight[k].id = id /\ inflight[k].uid \in UserIds]_vars

\* C30: in every state the client reaches, isAuthenticated holds only while user and
\* token are both not null; AUTH_FAILURE and LOGOUT leave user null, token null,
\* isAuthenticated false and isLoading false; an action of an unknown type leaves the
\* state as it is
C30_AuthReducerInvariant ==
    /\ [](auth.isAuthenticated => (auth.user # Null /\ auth.token # Null))
    /\ [][\A a \in KnownActions :
            (a.type \in {"AUTH_FAILURE", "LOGOUT"} /\ Dispatch(a)) =>
               /\ auth'.user = Null
               /\ auth'.token = Null
               /\ ~auth'.isAuthenticated
               /\ ~auth'.isLoading]_vars
    /\ [][\A a \in UnknownActions : Dispatch(a) => auth' = auth]_vars
    /\ [](\A a \in UnknownActions : authReducer(auth, a) = auth)

\* a signed-in client whose user was updated is signed in still, with user and token
C30_Witness ==
    /\ auth.isAuthenticated
    /\ auth.user \notin ClientUsers
    /\ auth.user # Null
    /\ auth.token \in ClientTokens
    /\ "firstName" \in DOMAIN auth.user
====
